---- MODULE Spec2Model ----
(***************************************************************************)
(* Model of the synthesis-to-execution pipeline of analytics_ql:            *)
(*   - App/utils/sql_operations.py   (is_query_safe, get_explain_plan,      *)
(*                                    check_plan_limits, execute_sql_query) *)
(*   - App/utils/query_protection.py (normalize_query,                      *)
(*                                    validate_query_safety_enhanced)       *)
(*   - App/utils/llm_utils.py        (safe_send_message)                    *)
(*   - App/utils/query_generation.py (get_sql_from_text)                    *)
(*   - App/cli.py                    (/execute route)                       *)
(*   - Database/services.py          (chat_service)                         *)
(* SQL texts are sequences of one-character strings, so that the regular    *)
(* expressions of the source are evaluated character by character.          *)
(***************************************************************************)
EXTENDS Integers, Sequences, FiniteSets, TLC

VARIABLES
    \* ---- pure string functions (SpecText) ----
    pieces,        \* the input text as the list of pieces it was assembled from
    query,         \* the input text, the characters of the pieces concatenated
    tpc,           \* "input" before a function is applied, then the name of the function applied
    safe_result,   \* result of is_query_safe(query)
    enh_result,    \* result of validate_query_safety_enhanced(query)
    call_args,     \* the arguments of a direct call of rule_score, pick_best_query or check_plan_limits
    call_result,   \* what that call returned
    \* ---- safe_send_message (SpecRetry) ----
    rpc,           \* position in safe_send_message
    is_new_adapter,\* isinstance(model, LLMAdapter)
    retries,       \* the retries argument
    backoff_factor,\* the backoff_factor argument
    attempt,       \* the attempt counter
    calls,         \* number of model.generate_content calls made
    sleeps,        \* sequence of time.sleep durations
    outcomes,      \* sequence of the provider's answers, one per call
    has_history,   \* a history list was supplied (history is not None)
    history,       \* the history list
    raised,        \* what safe_send_message raised ("none" while running or on return)
    returned,      \* the response returned ("none" if none)
    \* ---- /execute route and execute_sql_query (SpecExec) ----
    generated_query,\* generated_query of the session's last assistant message
    epc,           \* position in the route / in execute_sql_query
    exec_sql,      \* the sql_query argument of execute_sql_query
    call_trace,    \* the gates passed or failed by the current call, in order
    explained,     \* the texts get_explain_plan was invoked with
    executed,      \* the texts run for real (pd.read_sql_query)
    tx_state,      \* the dry-run transaction: "none", "active", "rolled_back", "committed"
    tx_pending,    \* effects staged inside the open dry-run transaction
    db_committed,  \* committed effects of dry-run transactions on the database
    plan,          \* the plan returned by get_explain_plan (kind "none" for None)
    erro,          \* the error text returned by get_explain_plan ("none" for None)
    explain_path,  \* the path get_explain_plan took ("none" if not invoked)
    exec_outcome,  \* the kind of the tuple execute_sql_query returned
    query_history, \* rows of metadata.query_history
    \* ---- get_sql_from_text (SpecGen) ----
    gpc,           \* position in get_sql_from_text
    nl_kind,       \* the question: "greeting", "vague" or "question"
    response,      \* the provider response: its shape and its payloads
    sql_candidates,\* the local list sql_candidates
    ml_algorithms, \* the local list ml_algorithms
    explanations,  \* the local list explanations
    used_tables_list, \* the local used_tables_list (bound or not, and its value)
    scored,        \* the candidate lists handed to pick_best_query
    gen_result,    \* what get_sql_from_text returned or raised
    \* ---- chat_service (SpecChat) ----
    chat_sessions, \* the rows of metadata.chat_sessions: absent, active or deleted
    chat_messages, \* the rows of metadata.chat_messages, in order of creation
    chat_return    \* the last chat_service call and what it returned

textVars  == <<pieces, query, tpc, safe_result, enh_result, call_args, call_result>>
retryVars == <<rpc, is_new_adapter, retries, backoff_factor, attempt, calls, sleeps, outcomes,
              has_history, history, raised, returned>>
execVars  == <<generated_query, epc, exec_sql, call_trace, explained, executed,
               tx_state, tx_pending, db_committed, plan, erro, explain_path,
               exec_outcome, query_history>>
genVars   == <<gpc, nl_kind, response, sql_candidates, ml_algorithms, explanations,
               used_tables_list, scored, gen_result>>
chatVars  == <<chat_sessions, chat_messages, chat_return>>
vars      == <<textVars, retryVars, execVars, genVars, chatVars>>

----------------------------------------------------------------------------
(* Characters and the character classes of Python's re module (ASCII).     *)

LowerLetters == <<"a","b","c","d","e","f","g","h","i","j","k","l","m",
                  "n","o","p","q","r","s","t","u","v","w","x","y","z">>
UpperLetters == <<"A","B","C","D","E","F","G","H","I","J","K","L","M",
                  "N","O","P","Q","R","S","T","U","V","W","X","Y","Z">>

WordChars == {LowerLetters[i] : i \in 1..26} \cup {UpperLetters[i] : i \in 1..26}
             \cup {"0","1","2","3","4","5","6","7","8","9"} \cup {"_"}
Spaces    == {" ", "\n", "\t"}
AllChars  == WordChars \cup Spaces \cup {";", "-", "/", "*", "'", "=", "(", ")", ",", "."}

\* str.upper() / str.lower() on one character
UpperOf == [c \in AllChars |->
               IF \E i \in 1..26 : LowerLetters[i] = c
               THEN UpperLetters[CHOOSE i \in 1..26 : LowerLetters[i] = c]
               ELSE c]
LowerOf == [c \in AllChars |->
               IF \E i \in 1..26 : UpperLetters[i] = c
               THEN LowerLetters[CHOOSE i \in 1..26 : UpperLetters[i] = c]
               ELSE c]

\* the function f on 1..n as a list
AsList(f) == <<>> \o f

StrUpper(s) == AsList([i \in 1..Len(s) |-> UpperOf[s[i]]])
StrLower(s) == AsList([i \in 1..Len(s) |-> LowerOf[s[i]]])

\* \w of the re module: letters, digits and underscore
IsWordChar(c) == c \in WordChars
\* \s of the re module, str.split() and str.strip()
IsSpace(c) == c \in Spaces

\* the literal lit occurs in s starting at position i
LitAt(s, i, lit) ==
    /\ i >= 1
    /\ i + Len(lit) - 1 <= Len(s)
    /\ \A j \in 1..Len(lit) : s[i + j - 1] = lit[j]

\* the literal lit occurs in s starting at position i, ignoring case (re.IGNORECASE)
LitAtIgnoreCase(s, i, lit) ==
    /\ i >= 1
    /\ i + Len(lit) - 1 <= Len(s)
    /\ \A j \in 1..Len(lit) : UpperOf[s[i + j - 1]] = UpperOf[lit[j]]

\* \b between positions p and p+1 of s (p in 0..Len(s))
WordBoundary(s, p) ==
    LET before == p >= 1 /\ p <= Len(s) /\ IsWordChar(s[p])
        after  == p + 1 >= 1 /\ p + 1 <= Len(s) /\ IsWordChar(s[p + 1])
    IN  before # after

\* re.search(r"\b" + kw + r"\b", s) with or without re.IGNORECASE
WholeWordAt(s, i, kw, ignorecase) ==
    /\ IF ignorecase THEN LitAtIgnoreCase(s, i, kw) ELSE LitAt(s, i, kw)
    /\ WordBoundary(s, i - 1)
    /\ WordBoundary(s, i + Len(kw) - 1)

SearchWholeWord(s, kw, ignorecase) == \E i \in 1..Len(s) : WholeWordAt(s, i, kw, ignorecase)

----------------------------------------------------------------------------
(* sql_operations.is_query_safe                                            *)

\* a blocklist that forgets DELETE and MERGE
FORBIDDEN_KEYWORDS_short ==
    {<<"I","N","S","E","R","T">>, <<"U","P","D","A","T","E">>, <<"D","R","O","P">>,
     <<"T","R","U","N","C","A","T","E">>, <<"A","L","T","E","R">>, <<"C","R","E","A","T","E">>,
     <<"G","R","A","N","T">>, <<"R","E","V","O","K","E">>}

FORBIDDEN_KEYWORDS ==
    {<<"I","N","S","E","R","T">>, <<"U","P","D","A","T","E">>, <<"D","E","L","E","T","E">>, <<"D","R","O","P">>, <<"T","R","U","N","C","A","T","E">>, <<"A","L","T","E","R">>, <<"C","R","E","A","T","E">>,
     <<"G","R","A","N","T">>, <<"R","E","V","O","K","E">>, <<"M","E","R","G","E">>}

\* the keywords matched anywhere, without the \b anchors
is_query_safe_substring(sql_query) ==
    ~ \E kw \in FORBIDDEN_KEYWORDS : \E i \in 1..Len(sql_query) :
          LitAtIgnoreCase(sql_query, i, kw)

is_query_safe(sql_query) ==
    ~ \E kw \in FORBIDDEN_KEYWORDS : SearchWholeWord(sql_query, kw, TRUE)

----------------------------------------------------------------------------
(* query_protection.normalize_query                                        *)

\* re.sub(r'--.*$', '', query, flags=re.MULTILINE): from each "--" up to
\* (not including) the end of its line
RECURSIVE StripLineFrom(_, _, _)
StripLineFrom(s, i, skipping) ==
    IF i > Len(s) THEN <<>>
    ELSE IF skipping
         THEN IF s[i] = "\n"
              THEN <<s[i]>> \o StripLineFrom(s, i + 1, FALSE)
              ELSE StripLineFrom(s, i + 1, TRUE)
         ELSE IF LitAt(s, i, <<"-","-">>)
              THEN StripLineFrom(s, i + 2, TRUE)
              ELSE <<s[i]>> \o StripLineFrom(s, i + 1, FALSE)

StripLineComments(s) == StripLineFrom(s, 1, FALSE)

\* positions j >= i+2 at which the closing "*/" of a block opened at i starts
BlockCloses(s, i) == {j \in (i + 2)..Len(s) : LitAt(s, j, <<"*","/">>)}

Min(S) == CHOOSE x \in S : \A y \in S : x <= y
Max(S) == CHOOSE x \in S : \A y \in S : x >= y

\* re.sub(r'/\*.*?\*/', '', query, flags=re.DOTALL): each "/*" up to the
\* first "*/" after it; an unterminated "/*" is kept
RECURSIVE StripBlockFrom(_, _)
StripBlockFrom(s, i) ==
    IF i > Len(s) THEN <<>>
    ELSE IF LitAt(s, i, <<"/","*">>) /\ BlockCloses(s, i) # {}
         THEN StripBlockFrom(s, Min(BlockCloses(s, i)) + 2)
         ELSE <<s[i]>> \o StripBlockFrom(s, i + 1)

StripBlockComments(s) == StripBlockFrom(s, 1)

\* ' '.join(s.split()): runs of whitespace become one space, none at the ends
RECURSIVE CollapseFrom(_, _, _, _)
CollapseFrom(s, i, pendingSpace, started) ==
    IF i > Len(s) THEN <<>>
    ELSE IF IsSpace(s[i])
         THEN CollapseFrom(s, i + 1, started, started)
         ELSE (IF pendingSpace THEN <<" ">> ELSE <<>>) \o <<s[i]>>
              \o CollapseFrom(s, i + 1, FALSE, TRUE)

CollapseWhitespace(s) == CollapseFrom(s, 1, FALSE, FALSE)

\* str.strip(): leading and trailing whitespace removed
StrStrip(s) ==
    LET keep == {i \in 1..Len(s) : ~IsSpace(s[i])}
    IN  IF keep = {} THEN <<>> ELSE SubSeq(s, Min(keep), Max(keep))

normalize_query(q) ==
    IF q = <<>> THEN <<>>
    ELSE StrLower(StrStrip(CollapseWhitespace(StripBlockComments(StripLineComments(q)))))

\* generate_query_hash: the SHA-256 digest of the normalized text, taken as
\* injective (equal digests iff equal normalized texts)
generate_query_hash(q) == normalize_query(q)

\* validate_query_integrity(stored_query, execution_query)
validate_query_integrity(stored_query, execution_query) ==
    IF stored_query = <<>> \/ execution_query = <<>>
    THEN [valid |-> FALSE, reason |-> "Query vazia detectada"]
    ELSE IF generate_query_hash(stored_query) # generate_query_hash(execution_query)
    THEN [valid |-> FALSE, reason |-> "Query foi modificada apos geracao"]
    ELSE [valid |-> TRUE, reason |-> ""]

----------------------------------------------------------------------------
(* query_protection.validate_query_safety_enhanced                         *)

DANGEROUS_KEYWORDS ==
    <<<<"I","N","S","E","R","T">>, <<"U","P","D","A","T","E">>, <<"D","E","L","E","T","E">>, <<"D","R","O","P">>, <<"T","R","U","N","C","A","T","E">>, <<"A","L","T","E","R">>, <<"C","R","E","A","T","E">>,
      <<"G","R","A","N","T">>, <<"R","E","V","O","K","E">>, <<"M","E","R","G","E">>, <<"E","X","E","C","U","T","E">>, <<"E","X","E","C">>, <<"C","A","L","L">>>>

\* positions at which matching continues after \s+ (min = 1) or \s* (min = 0)
\* started at position p
WsRunEnds(s, p, min) ==
    {q \in (p + min)..(Len(s) + 1) : \A k \in p..(q - 1) : IsSpace(s[k])}

\* '.*' between positions a and b (exclusive): no newline in between
NoNewlineBetween(s, a, b) == \A k \in (a + 1)..(b - 1) : s[k] # "\n"

\* r';.*--'
PatTerminatorComment(s) ==
    \E i \in 1..Len(s) : \E j \in (i + 1)..Len(s) :
        /\ s[i] = ";"
        /\ LitAt(s, j, <<"-","-">>)
        /\ NoNewlineBetween(s, i, j)

\* r'union\s+select'
PatUnionSelect(s) ==
    \E i \in 1..Len(s) :
        /\ LitAtIgnoreCase(s, i, <<"u","n","i","o","n">>)
        /\ \E q \in WsRunEnds(s, i + 5, 1) : LitAtIgnoreCase(s, q, <<"s","e","l","e","c","t">>)

\* r'or\s+1\s*=\s*1' and r'and\s+1\s*=\s*1' (word is "or" or "and")
PatTautology(s, word) ==
    \E i \in 1..Len(s) :
        /\ LitAtIgnoreCase(s, i, word)
        /\ \E q1 \in WsRunEnds(s, i + Len(word), 1) :
             /\ LitAt(s, q1, <<"1">>)
             /\ \E q2 \in WsRunEnds(s, q1 + 1, 0) :
                  /\ LitAt(s, q2, <<"=">>)
                  /\ \E q3 \in WsRunEnds(s, q2 + 1, 0) : LitAt(s, q3, <<"1">>)

\* r'\'.*or.*\'.*=.*\''
PatQuoteTautology(s) ==
    \E a \in {x \in 1..Len(s) : s[x] = "'"} :
    \E b \in {x \in (a + 1)..Len(s) : LitAtIgnoreCase(s, x, <<"o","r">>)} :
    \E c \in {x \in (b + 2)..Len(s) : s[x] = "'"} :
    \E d \in {x \in (c + 1)..Len(s) : s[x] = "="} :
    \E e \in {x \in (d + 1)..Len(s) : s[x] = "'"} :
        NoNewlineBetween(s, a, e)

InjectionDetected(s) ==
    \/ PatTerminatorComment(s)
    \/ PatUnionSelect(s)
    \/ PatTautology(s, <<"o","r">>)
    \/ PatTautology(s, <<"a","n","d">>)
    \/ PatQuoteTautology(s)

\* str.rstrip(';'): every trailing ';' removed
RStripSemi(s) ==
    LET keep == {i \in 1..Len(s) : s[i] # ";"}
    IN  IF keep = {} THEN <<>> ELSE SubSeq(s, 1, Max(keep))

\* ';' in query.rstrip(';')
HasInnerTerminator(q) == \E i \in 1..Len(RStripSemi(q)) : RStripSemi(q)[i] = ";"

\* the dangerous keyword found first, in list order (0 if none)
FirstDangerous(normalized) ==
    LET hits == {k \in 1..Len(DANGEROUS_KEYWORDS) :
                    SearchWholeWord(normalized, StrLower(DANGEROUS_KEYWORDS[k]), FALSE)}
    IN  IF hits = {} THEN 0 ELSE Min(hits)

Verdict(safe, reason, q, checks) ==
    [safe |-> safe, reason |-> reason,
     metadata |-> [query_length |-> Len(q), query_hash |-> generate_query_hash(q),
                   checks_performed |-> checks]]

\* the validator without its multiple-statement check
validate_query_safety_enhanced_no_multi(q) ==
    LET normalized == normalize_query(q)
    IN  IF q = <<>> \/ StrStrip(q) = <<>>
        THEN Verdict(FALSE, "Query vazia ou apenas espacos", q, <<>>)
        ELSE IF FirstDangerous(normalized) # 0
        THEN Verdict(FALSE, "Palavra-chave perigosa detectada", q, <<"dangerous_keywords">>)
        ELSE IF InjectionDetected(normalized)
        THEN Verdict(FALSE, "Padrao suspeito de SQL injection detectado", q,
                     <<"dangerous_keywords", "injection_patterns">>)
        ELSE Verdict(TRUE, "", q,
                     <<"dangerous_keywords", "injection_patterns", "all_passed">>)

validate_query_safety_enhanced(q) ==
    LET normalized == normalize_query(q)
    IN  IF q = <<>> \/ StrStrip(q) = <<>>
        THEN Verdict(FALSE, "Query vazia ou apenas espacos", q, <<>>)
        ELSE IF FirstDangerous(normalized) # 0
        THEN Verdict(FALSE, "Palavra-chave perigosa detectada", q, <<"dangerous_keywords">>)
        ELSE IF InjectionDetected(normalized)
        THEN Verdict(FALSE, "Padrao suspeito de SQL injection detectado", q,
                     <<"dangerous_keywords", "injection_patterns">>)
        ELSE IF HasInnerTerminator(q)
        THEN Verdict(FALSE, "Multiplos statements SQL nao sao permitidos", q,
                     <<"dangerous_keywords", "injection_patterns", "multiple_statements">>)
        ELSE Verdict(TRUE, "", q,
                     <<"dangerous_keywords", "injection_patterns", "all_passed">>)

----------------------------------------------------------------------------
(* Inputs of the text functions: texts assembled from pieces.              *)

MaxWords == 3        \* pieces per text in the keyword specification
MaxStmtPieces == 4   \* pieces per text in the statement specification

IdentPieces     == {<<"_">>, <<"s">>}
SeparatorPieces == {<<" ">>, <<"(">>, <<";">>}
WordPieces      == FORBIDDEN_KEYWORDS \cup IdentPieces \cup SeparatorPieces
StmtPieces      == {<<"S","E","L","E","C","T">>, <<" ">>, <<"1">>, <<";">>, <<"s">>, <<"\n">>, <<"-","-">>,
                    <<"D","R","O","P">>}

\* the piece in the given letter case ("mixed": every second letter lowered)
ApplyCase(p, casing) ==
    AsList([i \in 1..Len(p) |->
        IF casing = "lower" \/ (casing = "mixed" /\ i % 2 = 0)
        THEN LowerOf[p[i]] ELSE p[i]])

RECURSIVE Flatten(_)
Flatten(ps) == IF ps = <<>> THEN <<>> ELSE Head(ps) \o Flatten(Tail(ps))

SeqsUpTo(S, n) == UNION {[1..k -> S] : k \in 0..n}

RetryIdle ==
    /\ rpc = "idle"
    /\ is_new_adapter = FALSE
    /\ retries = 0
    /\ backoff_factor = 0
    /\ attempt = 0
    /\ calls = 0
    /\ sleeps = <<>>
    /\ outcomes = <<>>
    /\ has_history = FALSE
    /\ history = <<>>
    /\ raised = "none"
    /\ returned = "none"

NoNumber  == [kind |-> "none", val |-> 0]
NoPlan    == [kind |-> "none", total_cost |-> NoNumber, plan_rows |-> NoNumber]
NoOutcome == [kind |-> "none", total_cost |-> NoNumber, plan_rows |-> NoNumber]

ExecIdle ==
    /\ generated_query = <<>>
    /\ epc = "idle"
    /\ exec_sql = <<>>
    /\ call_trace = <<>>
    /\ explained = {}
    /\ executed = {}
    /\ tx_state = "none"
    /\ tx_pending = 0
    /\ db_committed = 0
    /\ plan = NoPlan
    /\ erro = "none"
    /\ explain_path = "none"
    /\ exec_outcome = NoOutcome
    /\ query_history = <<>>

NoResponse == [shape |-> "none", payloads |-> <<>>]
Unbound    == [bound |-> FALSE, val |-> <<>>]
NoResult   == [kind |-> "none", arity |-> 0, sql |-> <<>>, explanation |-> 0,
               used_tables |-> <<>>, ml_algorithm |-> 0]

GenIdle ==
    /\ gpc = "idle"
    /\ nl_kind = "none"
    /\ response = NoResponse
    /\ sql_candidates = <<>>
    /\ ml_algorithms = <<>>
    /\ explanations = <<>>
    /\ used_tables_list = Unbound
    /\ scored = <<>>
    /\ gen_result = NoResult

ChatIdle ==
    /\ chat_sessions = <<>>
    /\ chat_messages = <<>>
    /\ chat_return = <<>>

TextIdle ==
    /\ pieces = <<>>
    /\ query = <<>>
    /\ tpc = "idle"
    /\ safe_result = "none"
    /\ enh_result = "none"
    /\ call_args = <<>>
    /\ call_result = <<>>

TextInput(ps) ==
    /\ pieces = ps
    /\ query = Flatten(ps)
    /\ tpc = "input"
    /\ safe_result = "none"
    /\ enh_result = "none"
    /\ call_args = <<>>
    /\ call_result = <<>>

\* texts of keywords, identifier characters and separators, in three letter cases
InitWords ==
    /\ \E ps \in SeqsUpTo(WordPieces, MaxWords) : \E casing \in {"upper", "lower", "mixed"} :
          TextInput(AsList([i \in 1..Len(ps) |-> ApplyCase(ps[i], casing)]))
    /\ RetryIdle
    /\ ExecIdle
    /\ GenIdle
    /\ ChatIdle

\* texts of statements, terminators, comments and line breaks
InitStmt ==
    /\ \E ps \in SeqsUpTo(StmtPieces, MaxStmtPieces) : TextInput(ps)
    /\ RetryIdle
    /\ ExecIdle
    /\ GenIdle
    /\ ChatIdle

\* is_query_safe(query) is called
CallIsQuerySafe ==
    /\ tpc = "input"
    /\ safe_result' = is_query_safe(query)
    /\ tpc' = "is_query_safe"
    /\ UNCHANGED <<pieces, query, enh_result, call_args, call_result>>
    /\ UNCHANGED <<retryVars, execVars, genVars, chatVars>>

\* validate_query_safety_enhanced(query) is called
CallValidateEnhanced ==
    /\ tpc = "input"
    /\ enh_result' = validate_query_safety_enhanced(query)
    /\ tpc' = "validate_enhanced"
    /\ UNCHANGED <<pieces, query, safe_result, call_args, call_result>>
    /\ UNCHANGED <<retryVars, execVars, genVars, chatVars>>

\* the fragments of the injection shapes the validator looks for
InjectPieces ==
    {<<"U","N","I","O","N">>, <<"S","E","L","E","C","T">>, <<"O","R">>, <<"1">>, <<"=">>,
     <<" ">>, <<"/","*","*","/">>, <<"-","-">>, <<";">>,
     <<"'"," ","O","R"," ","'","1","'","=","'","1">>}

\* texts of injection fragments, blanks and comments
InitInject ==
    /\ \E ps \in SeqsUpTo(InjectPieces, MaxStmtPieces) : TextInput(ps)
    /\ RetryIdle
    /\ ExecIdle
    /\ GenIdle
    /\ ChatIdle

NextWords == CallIsQuerySafe
NextStmt  == CallValidateEnhanced

SpecWords == InitWords /\ [][NextWords]_vars
SpecStmt  == InitStmt /\ [][NextStmt]_vars
SpecInject == InitInject /\ [][NextStmt]_vars

----------------------------------------------------------------------------
(* Claims about the text functions.                                        *)

\* the ten blocklisted words of the basic check
BlocklistWords ==
    {<<"I","N","S","E","R","T">>, <<"U","P","D","A","T","E">>, <<"D","E","L","E","T","E">>,
     <<"D","R","O","P">>, <<"T","R","U","N","C","A","T","E">>, <<"A","L","T","E","R">>,
     <<"C","R","E","A","T","E">>, <<"G","R","A","N","T">>, <<"R","E","V","O","K","E">>,
     <<"M","E","R","G","E">>}

\* piece i is a blocklisted word standing alone: separators (or the ends of
\* the text) on both sides
StandsAlone(ps, i) ==
    /\ StrUpper(ps[i]) \in BlocklistWords
    /\ (i = 1 \/ ps[i - 1] \in SeparatorPieces)
    /\ (i = Len(ps) \/ ps[i + 1] \in SeparatorPieces)

HasWholeWordKeyword(ps) == \E i \in 1..Len(ps) : StandsAlone(ps, i)

\* C9: is_query_safe returns false for every text that contains a blocklisted
\* keyword as a whole word, in any letter case, and true for every text in
\* which the keywords occur only inside longer identifiers (or not at all).
C9_WholeWordBlocklist ==
    tpc = "is_query_safe" => (safe_result = ~HasWholeWordKeyword(pieces))

\* a lower- or mixed-case keyword glued to identifier characters was accepted
C9_Witness ==
    /\ tpc = "is_query_safe"
    /\ safe_result = TRUE
    /\ \E i \in 1..Len(pieces) :
          /\ StrUpper(pieces[i]) \in BlocklistWords
          /\ pieces[i] # StrUpper(pieces[i])
          /\ i < Len(pieces)
          /\ pieces[i + 1] \in IdentPieces

\* number of ';' characters of s
CountSemi(s) == Cardinality({i \in 1..Len(s) : s[i] = ";"})

\* C10 (as stated): validate_query_safety_enhanced rejects every query with
\* more than one ';', and accepts a query that passes the other checks when it
\* has no ';' or exactly one ';' as its last character.
C10_AtMostOneTerminator ==
    tpc = "validate_enhanced" =>
        /\ (CountSemi(query) > 1 => ~enh_result.safe)
        /\ ( ( /\ validate_query_safety_enhanced_no_multi(query).safe
               /\ \/ CountSemi(query) = 0
                  \/ (CountSemi(query) = 1 /\ query[Len(query)] = ";") )
             => enh_result.safe )

\* a blank or a comment between two tokens
IsGap(p) == p \in {<<" ">>, <<"/","*","*","/">>}

\* the pieces from..to are all gaps
GapsOnly(ps, from, to) == \A k \in from..to : IsGap(ps[k])

\* piece i is live SQL: no line comment starts before it
Live(ps, i) == \A k \in 1..(i - 1) : ps[k] # <<"-","-">>

\* the text has one of the injection shapes: a terminator followed by a
\* comment, UNION SELECT, OR 1=1, or the quote-based tautology
HasInjectionShape(ps) ==
    \/ \E i \in 1..Len(ps) : \E j \in (i + 1)..Len(ps) :
          Live(ps, i) /\ ps[i] = <<";">> /\ ps[j] = <<"-","-">>
    \/ \E i \in 1..Len(ps) : \E j \in (i + 2)..Len(ps) :
          /\ Live(ps, i)
          /\ ps[i] = <<"U","N","I","O","N">>
          /\ ps[j] = <<"S","E","L","E","C","T">>
          /\ GapsOnly(ps, i + 1, j - 1)
    \/ \E i \in 1..Len(ps) : \E j \in (i + 2)..(Len(ps) - 2) :
          /\ Live(ps, i)
          /\ ps[i] = <<"O","R">>
          /\ GapsOnly(ps, i + 1, j - 1)
          /\ ps[j] = <<"1">> /\ ps[j + 1] = <<"=">> /\ ps[j + 2] = <<"1">>
    \/ \E i \in 1..Len(ps) :
          Live(ps, i) /\ ps[i] = <<"'"," ","O","R"," ","'","1","'","=","'","1">>

\* a single SELECT of a literal: SELECT, blanks and digits only
IsPlainSelect(ps) ==
    /\ Len(ps) >= 3
    /\ ps[1] = <<"S","E","L","E","C","T">>
    /\ ps[2] = <<" ">>
    /\ \A k \in 3..Len(ps) : ps[k] = <<"1">>

\* C11 (as stated): validate_query_safety_enhanced reports not safe for every
\* text with a known injection shape (terminator then comment, UNION SELECT,
\* OR 1=1, quote-based tautology), and safe for a plain single SELECT.
C11_InjectionShapesRejected ==
    tpc = "validate_enhanced" =>
        /\ HasInjectionShape(pieces) => ~enh_result.safe
        /\ IsPlainSelect(pieces) => enh_result.safe


\* C29 (as stated): the enhanced validator is at least as strict as the basic
\* one: a text that is_query_safe rejects is also reported not safe by
\* validate_query_safety_enhanced.
C29_EnhancedAtLeastAsStrict ==
    tpc = "validate_enhanced" => (~is_query_safe(query) => ~enh_result.safe)

----------------------------------------------------------------------------
(* llm_utils.safe_send_message (and its copy in Engine/engine.py, which is *)
(* the legacy branch: is_new_adapter = FALSE).                             *)

MaxRetries == 5                 \* largest retries argument explored
DefaultRetries == 5
DefaultBackoffFactor == 2

MaxAttemptsError == "Maximo de tentativas atingido."

\* what one model.generate_content call can do: return a response, raise
\* ResourceExhausted, raise another exception whose message contains "rate"
\* or "limit", or raise any other exception
ProviderAnswers == {"ok", "ResourceExhausted", "rate_message", "other"}

RECURSIVE Pow(_, _)
Pow(b, e) == IF e <= 0 THEN 1 ELSE b * Pow(b, e - 1)

\* the counter left as it is when a rate-limited attempt fails
attempt_not_counted(a) == a

\* attempt += 1
attempt_after_failure(a) == a + 1

\* the delay computed from the attempt number before its increment
wait_time_from_zero(bf, a) == Pow(bf, a - 1)

\* wait_time = backoff_factor ** attempt
wait_time(bf, a) == Pow(bf, a)

\* the except clause that backs off: ResourceExhausted, or for an LLMAdapter
\* any exception whose message contains "rate" or "limit"
HandledAsRateLimit(ans) ==
    \/ ans = "ResourceExhausted"
    \/ (is_new_adapter /\ ans = "rate_message")

InitRetry ==
    /\ rpc = "loop"
    /\ is_new_adapter \in BOOLEAN
    /\ retries \in 0..MaxRetries
    /\ backoff_factor \in {DefaultBackoffFactor, 3}
    /\ attempt = 0
    /\ calls = 0
    /\ sleeps = <<>>
    /\ outcomes = <<>>
    /\ has_history \in BOOLEAN
    /\ history = <<>>
    /\ raised = "none"
    /\ returned = "none"
    /\ TextIdle
    /\ ExecIdle
    /\ GenIdle
    /\ ChatIdle

\* raise Exception("Maximo de tentativas atingido.") after the loop
RaiseAfterLoop ==
    /\ rpc' = "raised"
    /\ raised' = MaxAttemptsError

\* the while condition is false on entry: no call is made
LoopNotEntered ==
    /\ rpc = "loop"
    /\ ~(attempt < retries)
    /\ RaiseAfterLoop
    /\ UNCHANGED <<is_new_adapter, retries, backoff_factor, attempt, calls, sleeps,
                   outcomes, has_history, history, returned>>
    /\ UNCHANGED <<textVars, execVars, genVars, chatVars>>

\* generate_content returns: the exchange is recorded and the response returned
ProviderSucceeds ==
    /\ rpc = "loop"
    /\ attempt < retries
    /\ calls' = calls + 1
    /\ outcomes' = Append(outcomes, "ok")
    /\ history' = IF has_history THEN Append(history, "response") ELSE history
    /\ returned' = "response"
    /\ rpc' = "returned"
    /\ UNCHANGED <<is_new_adapter, retries, backoff_factor, attempt, sleeps,
                   has_history, raised>>
    /\ UNCHANGED <<textVars, execVars, genVars, chatVars>>

\* generate_content raises an error that is handled as a rate limit: back off
\* and retry, or give up when the attempts are used up
ProviderRateLimited ==
    /\ rpc = "loop"
    /\ attempt < retries
    /\ \E ans \in ProviderAnswers :
          /\ HandledAsRateLimit(ans)
          /\ outcomes' = Append(outcomes, ans)
    /\ calls' = calls + 1
    /\ attempt' = attempt_after_failure(attempt)
    /\ IF attempt' < retries
       THEN /\ sleeps' = Append(sleeps, wait_time(backoff_factor, attempt'))
            /\ UNCHANGED <<rpc, raised>>
       ELSE /\ RaiseAfterLoop
            /\ UNCHANGED sleeps
    /\ UNCHANGED <<is_new_adapter, retries, backoff_factor, has_history, history, returned>>
    /\ UNCHANGED <<textVars, execVars, genVars, chatVars>>

\* generate_content raises any other exception: logged, break, and the
\* statement after the loop raises
ProviderFails ==
    /\ rpc = "loop"
    /\ attempt < retries
    /\ \E ans \in ProviderAnswers \ {"ok"} :
          /\ ~HandledAsRateLimit(ans)
          /\ outcomes' = Append(outcomes, ans)
    /\ calls' = calls + 1
    /\ RaiseAfterLoop
    /\ UNCHANGED <<is_new_adapter, retries, backoff_factor, attempt, sleeps,
                   has_history, history, returned>>
    /\ UNCHANGED <<textVars, execVars, genVars, chatVars>>

NextRetry ==
    \/ LoopNotEntered
    \/ ProviderSucceeds
    \/ ProviderRateLimited
    \/ ProviderFails

SpecRetry == InitRetry /\ [][NextRetry]_vars

\* the calls are synchronous: a call that can be made is made
FairSpecRetry == SpecRetry /\ WF_vars(NextRetry)

----------------------------------------------------------------------------
(* Claims about safe_send_message.                                         *)

\* the first n answers were all rate-limit errors
FirstAreRateLimited(n) ==
    /\ n <= Len(outcomes)
    /\ \A i \in 1..n : HandledAsRateLimit(outcomes[i])

\* the delays backoff_factor^1 .. backoff_factor^k
BackoffDelays(k) == AsList([i \in 1..k |-> Pow(backoff_factor, i)])

\* C6: after k rate-limit errors (1 <= k < retries) the call is still running
\* and has slept backoff_factor^1 .. backoff_factor^k; when the next answer is
\* a success, that response is returned after exactly k+1 calls and those k
\* sleeps.
C6_BackoffThenSuccess ==
    \A k \in 1..(retries - 1) :
        /\ (Len(outcomes) = k /\ FirstAreRateLimited(k))
              => /\ rpc = "loop"
                 /\ calls = k
                 /\ sleeps = BackoffDelays(k)
        /\ (Len(outcomes) = k + 1 /\ FirstAreRateLimited(k) /\ outcomes[k + 1] = "ok")
              => /\ rpc = "returned"
                 /\ returned = "response"
                 /\ raised = "none"
                 /\ calls = k + 1
                 /\ sleeps = BackoffDelays(k)

\* three rate-limit errors, then success, with backoff_factor 2: slept 2, 4, 8
C6_Witness ==
    /\ rpc = "returned"
    /\ backoff_factor = 2
    /\ Len(outcomes) = 4
    /\ FirstAreRateLimited(3)
    /\ sleeps = <<2, 4, 8>>
    /\ returned = "response"

\* C7: when every answer is a rate-limit error, safe_send_message makes at
\* most retries calls, returns no response, ends with the retries-exhausted
\* error once retries calls were made, and it always ends.
C7_RateLimitedTerminates ==
    /\ [](FirstAreRateLimited(Len(outcomes))
            => /\ calls <= retries
               /\ returned = "none"
               /\ rpc # "returned"
               /\ (rpc = "raised" => (raised = MaxAttemptsError /\ calls = retries)))
    /\ <>(rpc # "loop")

\* five rate-limit errors with retries = 5 ended in the retries-exhausted error
C7_Witness ==
    /\ retries = DefaultRetries
    /\ Len(outcomes) = DefaultRetries
    /\ FirstAreRateLimited(DefaultRetries)
    /\ rpc = "raised"
    /\ raised = MaxAttemptsError

\* C8 (as stated): when a call raises an error that is not a rate-limit
\* error, no sleep and no further call follow and that error reaches the
\* caller; only rate-limit errors are followed by a sleep.
C8_OtherErrorPropagates ==
    /\ Len(sleeps) <= Cardinality({i \in 1..Len(outcomes) : HandledAsRateLimit(outcomes[i])})
    /\ \A i \in 1..Len(outcomes) :
          (outcomes[i] # "ok" /\ ~HandledAsRateLimit(outcomes[i]))
              => /\ i = Len(outcomes)
                 /\ rpc = "raised"
                 /\ raised = outcomes[i]

\* C22 (as stated): with a history list supplied, every attempt and its
\* outcome is appended to it: after k failed attempts and a success the
\* history is k+1 entries longer, and a call that fails has recorded its
\* attempts.
C22_EveryAttemptRecorded ==
    (rpc \in {"loop", "returned", "raised"} /\ has_history) => Len(history) = Len(outcomes)

----------------------------------------------------------------------------
(* SQL texts of the pipeline.                                              *)

qSelect  == <<"S","E","L","E","C","T"," ","a"," ","F","R","O","M"," ","t">>
qStar    == <<"S","E","L","E","C","T"," ","*"," ","F","R","O","M"," ","t">>
qIdent   == <<"S","E","L","E","C","T"," ","u","p","d","a","t","e","d","_","a","t"," ","F","R","O","M"," ","t">>
qUnion   == <<"S","E","L","E","C","T"," ","a"," ","F","R","O","M"," ","t"," ","U","N","I","O","N"," ","S","E","L","E","C","T"," ","a"," ","F","R","O","M"," ","u">>
qDelete  == <<"D","E","L","E","T","E"," ","F","R","O","M"," ","t">>
qDrop    == <<"d","r","o","p"," ","t","a","b","l","e"," ","t">>
qBlocked == <<"-","-"," ","A"," ","q","u","e","r","y"," ","g","e","r","a","d","a"," ","f","o","i"," ","b","l","o","q","u","e","a","d","a"," ","p","o","r"," ","r","a","z","o","e","s"," ","d","e"," ","s","e","g","u","r","a","n","c","a",".">>

\* the texts returned in place of a query
qGreeting   == <<"\n","S","o","u"," ","s","e","u"," ","a","s","s","i","s","t","e","n","t","e"," ","e","s","p","e","c","i","a","l","i","z","a","d","o"," ","e","m"," ","c","o","n","s","u","l","t","a","s"," ","S","Q","L">>
qVague      == <<"\n","P","a","r","a"," ","t","e"," ","a","j","u","d","a","r"," ","d","a"," ","m","e","l","h","o","r"," ","f","o","r","m","a",","," ","p","r","e","c","i","s","o"," ","d","e"," ","u","m","a"," ","p","e","r","g","u","n","t","a"," ","m","a","i","s"," ","e","s","p","e","c","i","f","i","c","a">>
qVectorErr  == <<"-","-"," ","E","r","r","o"," ","a","o"," ","c","o","n","e","c","t","a","r"," ","a","o"," ","V","e","c","t","o","r"," ","S","t","o","r","e">>
qNoMetadata == <<"-","-"," ","N","e","n","h","u","m"," ","m","e","t","a","d","a","d","o"," ","r","e","l","e","v","a","n","t","e"," ","e","n","c","o","n","t","r","a","d","o"," ","p","a","r","a"," ","a"," ","p","e","r","g","u","n","t","a",".">>
qNotJson    == <<"-","-"," ","E","r","r","o"," ","a","o"," ","p","r","o","c","e","s","s","a","r"," ","r","e","s","p","o","s","t","a"," ","d","o"," ","m","o","d","e","l","o",".">>
qNoValid    == <<"-","-"," ","N","e","n","h","u","m","a"," ","q","u","e","r","y"," ","v","a","l","i","d","a"," ","f","o","i"," ","g","e","r","a","d","a",".">>
qGenErr     == <<"-","-"," ","E","r","r","o"," ","a","o"," ","g","e","r","a","r"," ","a","s"," ","q","u","e","r","i","e","s"," ","c","a","n","d","i","d","a","t","a","s">>
qRerankErr  == <<"-","-"," ","E","r","r","o"," ","a","o"," ","r","e","r","a","n","q","u","e","a","r"," ","a","s"," ","c","o","n","s","u","l","t","a","s"," ","c","a","n","d","i","d","a","t","a","s">>

\* the candidate texts a provider response can carry
SqlPool == {qSelect, qStar, qIdent, qUnion, qDelete, qDrop}

----------------------------------------------------------------------------
(* sql_operations.normalize_sql, rule_score and pick_best_query.           *)

\* the words sqlparse treats as keywords, among the words of the texts used
SqlKeywords ==
    FORBIDDEN_KEYWORDS \cup
    {<<"S","E","L","E","C","T">>, <<"F","R","O","M">>, <<"U","N","I","O","N">>, <<"T","A","B","L","E">>, <<"W","H","E","R","E">>}

\* the end of the run of word characters that starts at position i
WordEnd(s, i) == Max({j \in i..Len(s) : \A k \in i..j : IsWordChar(s[k])})

\* keyword_case="upper": every keyword outside a string literal is upper-cased
RECURSIVE UpperKeywordsFrom(_, _, _)
UpperKeywordsFrom(s, i, quoted) ==
    IF i > Len(s) THEN <<>>
    ELSE IF s[i] = "'"
         THEN <<s[i]>> \o UpperKeywordsFrom(s, i + 1, ~quoted)
    ELSE IF ~quoted /\ IsWordChar(s[i])
         THEN LET j    == WordEnd(s, i)
                  word == SubSeq(s, i, j)
              IN  (IF StrUpper(word) \in SqlKeywords THEN StrUpper(word) ELSE word)
                  \o UpperKeywordsFrom(s, j + 1, quoted)
    ELSE <<s[i]>> \o UpperKeywordsFrom(s, i + 1, quoted)

\* sqlparse.format(q, strip_comments=True, keyword_case="upper") followed by
\* " ".join(q.split())
normalize_sql(q) ==
    CollapseWhitespace(UpperKeywordsFrom(StripBlockComments(StripLineComments(q)), 1, FALSE))

RULE_FORBIDDEN == {<<"D","E","L","E","T","E">>, <<"U","P","D","A","T","E">>, <<"I","N","S","E","R","T">>, <<"A","L","T","E","R">>}

\* f in up: the literal occurs anywhere in the text
Occurs(s, lit) == \E i \in 1..Len(s) : LitAt(s, i, lit)

\* rule_score in tenths: 0 if a forbidden word occurs in sql.upper(), else
\* 10, less 1 if "SELECT *" occurs
rule_score(sql) ==
    LET up == StrUpper(sql)
    IN  IF \E f \in RULE_FORBIDDEN : Occurs(up, f) THEN 0
        ELSE IF Occurs(up, <<"S","E","L","E","C","T"," ","*">>) THEN 9
        ELSE 10

\* final = 0.7 * model_score + 0.3 * rule_score, in hundredths (the scores
\* are in tenths)
final_score(model_score, rule) == 7 * model_score + 3 * rule

\* final.argsort(): the indices in ascending order of score, equal scores in
\* index order
Argsort(final) ==
    LET n == Len(final)
        Before(i, j) == final[i] < final[j] \/ (final[i] = final[j] /\ i < j)
        Pos(i) == 1 + Cardinality({j \in 1..n : Before(j, i)})
    IN  AsList([p \in 1..n |-> CHOOSE i \in 1..n : Pos(i) = p])

\* the ascending order left as it is
order_not_reversed(seq) == seq

\* [::-1]
Reverse(seq) == AsList([i \in 1..Len(seq) |-> seq[Len(seq) + 1 - i]])

\* pick_best_query(question, candidates, top_k) with the scores the relevance
\* model returns for the normalized candidates
pick_best_query(candidates, model_scores, top_k) ==
    LET n      == Len(candidates)
        normed == AsList([i \in 1..n |-> normalize_sql(candidates[i])])
        rules  == AsList([i \in 1..n |-> rule_score(normed[i])])
        final  == AsList([i \in 1..n |-> final_score(model_scores[i], rules[i])])
        order  == Reverse(Argsort(final))
        kept   == IF top_k < n THEN top_k ELSE n
    IN  AsList([i \in 1..kept |->
            [rank |-> i,
             sql |-> candidates[order[i]],
             norm_sql |-> normed[order[i]],
             model_score |-> model_scores[order[i]],
             rule_score |-> rules[order[i]],
             final_score |-> final[order[i]]]])

----------------------------------------------------------------------------
(* sql_operations.check_plan_limits and the plans of the dry run.          *)

COST_CEILING == 1000000
ROW_CEILING  == 200000

\* a value of the plan node: a number, a value that is not a number, or absent
Num(n)    == [kind |-> "num", val |-> n]

\* the top-level node of an EXPLAIN (FORMAT JSON) result
Plans ==
    [kind : {"dict"},
     total_cost : {[kind |-> "missing", val |-> 0], [kind |-> "not_number", val |-> 0],
                   Num(10), Num(COST_CEILING), Num(2000000)},
     plan_rows : {[kind |-> "missing", val |-> 0], [kind |-> "not_number", val |-> 0],
                  Num(10), Num(ROW_CEILING), Num(300000)}]

\* plan.get("Plan", {}).get(key, 0)
GetOrZero(v) == IF v.kind = "missing" THEN Num(0) ELSE v

LimitsVerdict(flag, motivo, total_cost, plan_rows) ==
    [flag |-> flag, motivo |-> motivo, custo |-> total_cost, linhas |-> plan_rows]

\* the check with the ceilings themselves rejected (>= for >)
check_plan_limits_inclusive(total_cost, plan_rows) ==
    IF total_cost.kind # "num"
    THEN LimitsVerdict(TRUE, "Erro ao analisar plano", total_cost, plan_rows)
    ELSE IF total_cost.val >= COST_CEILING
    THEN LimitsVerdict(TRUE, "Plano excede limites", total_cost, plan_rows)
    ELSE IF plan_rows.kind # "num"
    THEN LimitsVerdict(TRUE, "Erro ao analisar plano", total_cost, plan_rows)
    ELSE IF plan_rows.val >= ROW_CEILING
    THEN LimitsVerdict(TRUE, "Plano excede limites", total_cost, plan_rows)
    ELSE LimitsVerdict(FALSE, "", total_cost, plan_rows)

\* the check with the row ceiling forgotten
check_plan_limits_cost_only(total_cost, plan_rows) ==
    IF total_cost.kind # "num"
    THEN LimitsVerdict(TRUE, "Erro ao analisar plano", total_cost, plan_rows)
    ELSE IF total_cost.val > COST_CEILING
    THEN LimitsVerdict(TRUE, "Plano excede limites", total_cost, plan_rows)
    ELSE LimitsVerdict(FALSE, "", total_cost, plan_rows)

\* total_cost > 1000000 or plan_rows > 200000, evaluated left to right; a
\* comparison with a value that is not a number raises and is caught
check_plan_limits(total_cost, plan_rows) ==
    IF total_cost.kind # "num"
    THEN LimitsVerdict(TRUE, "Erro ao analisar plano", total_cost, plan_rows)
    ELSE IF total_cost.val > COST_CEILING
    THEN LimitsVerdict(TRUE, "Plano excede limites", total_cost, plan_rows)
    ELSE IF plan_rows.kind # "num"
    THEN LimitsVerdict(TRUE, "Erro ao analisar plano", total_cost, plan_rows)
    ELSE IF plan_rows.val > ROW_CEILING
    THEN LimitsVerdict(TRUE, "Plano excede limites", total_cost, plan_rows)
    ELSE LimitsVerdict(FALSE, "", total_cost, plan_rows)

----------------------------------------------------------------------------
(* Direct calls of rule_score, pick_best_query, check_plan_limits, the two  *)
(* normalizers and validate_query_integrity.                               *)

MaxCandidates == 3      \* candidates per pick_best_query call

ModelScores == {0, 10}      \* relevance scores, in tenths

\* the fragments the texts handed to normalize_query are made of
NormPieces == {<<"-">>, <<"/","*","*","/">>, <<" ">>, <<"a">>, <<"S","E","L","E","C","T">>}

\* a statement with a string literal, and the same with the literal in the
\* other letter case; a statement with comments and extra blanks
qLitUpper  == <<"S","E","L","E","C","T"," ","a"," ","F","R","O","M"," ","t"," ","W","H","E","R","E"," ","n"," ","="," ","'","B","'">>
qLitLower  == <<"S","E","L","E","C","T"," ","a"," ","F","R","O","M"," ","t"," ","W","H","E","R","E"," ","n"," ","="," ","'","b","'">>
qCommented == <<"S","E","L","E","C","T"," "," ","a"," ","/","*"," ","c"," ","*","/"," ","F","R","O","M"," ","t"," ","-","-"," ","z">>

\* the stored and execution texts handed to validate_query_integrity
IntegrityTexts == {<<>>, qSelect, qCommented, qStar, qLitUpper, qLitLower}

\* one call: the function and its arguments (the arguments of the other
\* functions are left empty)
InitCalls ==
    /\ pieces = <<>>
    /\ query = <<>>
    /\ tpc = "input"
    /\ safe_result = "none"
    /\ enh_result = "none"
    /\ call_result = <<>>
    /\ call_args \in
          {[fn |-> "rule_score", sql |-> q, candidates |-> <<>>, model_scores |-> <<>>,
            top_k |-> 0, total_cost |-> NoNumber, plan_rows |-> NoNumber] :
               q \in SqlPool \cup {StrLower(x) : x \in SqlPool} \cup {<<>>}}
          \cup
          {[fn |-> "pick_best_query", sql |-> <<>>, candidates |-> cs, model_scores |-> ms,
            top_k |-> k, total_cost |-> NoNumber, plan_rows |-> NoNumber] :
               cs \in UNION {[1..n -> {qSelect, qUnion, qStar, qDelete}] : n \in 1..MaxCandidates},
               ms \in UNION {[1..n -> ModelScores] : n \in 1..MaxCandidates},
               k \in 0..(MaxCandidates + 1)}
          \cup
          {[fn |-> "check_plan_limits", sql |-> <<>>, candidates |-> <<>>, model_scores |-> <<>>,
            top_k |-> 0, total_cost |-> c, plan_rows |-> r] :
               c \in {Num(0), Num(10), Num(COST_CEILING - 1), Num(COST_CEILING),
                      Num(COST_CEILING + 1), Num(2000000), [kind |-> "not_number", val |-> 0]},
               r \in {Num(0), Num(10), Num(ROW_CEILING - 1), Num(ROW_CEILING),
                      Num(ROW_CEILING + 1), Num(300000), [kind |-> "not_number", val |-> 0]}}
          \cup
          {[fn |-> "normalize_query", sql |-> Flatten(ps), candidates |-> <<>>,
            model_scores |-> <<>>, top_k |-> 0, total_cost |-> NoNumber, plan_rows |-> NoNumber] :
               ps \in SeqsUpTo(NormPieces, MaxWords)}
          \cup
          {[fn |-> "normalize_sql", sql |-> q, candidates |-> <<>>,
            model_scores |-> <<>>, top_k |-> 0, total_cost |-> NoNumber, plan_rows |-> NoNumber] :
               q \in SqlPool \cup {StrLower(x) : x \in SqlPool} \cup {qCommented}}
          \cup
          {[fn |-> "validate_query_integrity", sql |-> stored, candidates |-> <<execution>>,
            model_scores |-> <<>>, top_k |-> 0, total_cost |-> NoNumber, plan_rows |-> NoNumber] :
               stored \in IntegrityTexts, execution \in IntegrityTexts}
    /\ call_args.fn = "pick_best_query" => Len(call_args.candidates) = Len(call_args.model_scores)
    /\ RetryIdle
    /\ ExecIdle
    /\ GenIdle
    /\ ChatIdle

\* rule_score(sql) is called; the score is kept in tenths
CallRuleScore ==
    /\ tpc = "input"
    /\ call_args.fn = "rule_score"
    /\ call_result' = rule_score(call_args.sql)
    /\ tpc' = "rule_score"
    /\ UNCHANGED <<pieces, query, safe_result, enh_result, call_args>>
    /\ UNCHANGED <<retryVars, execVars, genVars, chatVars>>

\* pick_best_query(question, candidates, top_k) is called and the relevance
\* model returns model_scores
CallPickBestQuery ==
    /\ tpc = "input"
    /\ call_args.fn = "pick_best_query"
    /\ call_result' = pick_best_query(call_args.candidates, call_args.model_scores,
                                       call_args.top_k)
    /\ tpc' = "pick_best_query"
    /\ UNCHANGED <<pieces, query, safe_result, enh_result, call_args>>
    /\ UNCHANGED <<retryVars, execVars, genVars, chatVars>>

\* check_plan_limits(total_cost, plan_rows) is called
CallCheckPlanLimits ==
    /\ tpc = "input"
    /\ call_args.fn = "check_plan_limits"
    /\ call_result' = check_plan_limits(call_args.total_cost, call_args.plan_rows)
    /\ tpc' = "check_plan_limits"
    /\ UNCHANGED <<pieces, query, safe_result, enh_result, call_args>>
    /\ UNCHANGED <<retryVars, execVars, genVars, chatVars>>

\* normalize_query(query) is called
CallNormalizeQuery ==
    /\ tpc = "input"
    /\ call_args.fn = "normalize_query"
    /\ call_result' = normalize_query(call_args.sql)
    /\ tpc' = "normalize_query"
    /\ UNCHANGED <<pieces, query, safe_result, enh_result, call_args>>
    /\ UNCHANGED <<retryVars, execVars, genVars, chatVars>>

\* normalize_sql(q) is called
CallNormalizeSql ==
    /\ tpc = "input"
    /\ call_args.fn = "normalize_sql"
    /\ call_result' = normalize_sql(call_args.sql)
    /\ tpc' = "normalize_sql"
    /\ UNCHANGED <<pieces, query, safe_result, enh_result, call_args>>
    /\ UNCHANGED <<retryVars, execVars, genVars, chatVars>>

\* validate_query_integrity(stored_query, execution_query) is called; the
\* execution text is carried in the candidates argument
CallValidateIntegrity ==
    /\ tpc = "input"
    /\ call_args.fn = "validate_query_integrity"
    /\ call_result' = validate_query_integrity(call_args.sql, call_args.candidates[1])
    /\ tpc' = "validate_query_integrity"
    /\ UNCHANGED <<pieces, query, safe_result, enh_result, call_args>>
    /\ UNCHANGED <<retryVars, execVars, genVars, chatVars>>

NextCalls ==
    \/ CallRuleScore
    \/ CallPickBestQuery
    \/ CallCheckPlanLimits
    \/ CallNormalizeQuery
    \/ CallNormalizeSql
    \/ CallValidateIntegrity

SpecCalls == InitCalls /\ [][NextCalls]_vars

----------------------------------------------------------------------------
(* Claims about rule_score, pick_best_query and check_plan_limits.         *)

\* C12 (as stated): rule_score is 0.0 exactly when DELETE, UPDATE, INSERT or
\* ALTER stands in the text as a whole word (any case); for every other text
\* (one where such a word is only part of an identifier included) it is 0.9
\* if the text contains SELECT * and 1.0 otherwise.
C12_RuleScoreWholeWord ==
    tpc = "rule_score" =>
        LET sql == call_args.sql
            whole == \E w \in {<<"D","E","L","E","T","E">>, <<"U","P","D","A","T","E">>,
                                <<"I","N","S","E","R","T">>, <<"A","L","T","E","R">>} :
                        SearchWholeWord(sql, w, TRUE)
            star  == \E i \in 1..Len(sql) :
                        LitAtIgnoreCase(sql, i, <<"S","E","L","E","C","T"," ","*">>)
        IN  call_result = IF whole THEN 0 ELSE IF star THEN 9 ELSE 10

\* the final score 0.7 * model_score + 0.3 * rule_score of candidate i of
\* the call, in hundredths
ExpectedFinal(i) ==
    7 * call_args.model_scores[i] + 3 * rule_score(normalize_sql(call_args.candidates[i]))

\* C13: pick_best_query returns min(top_k, len(candidates)) entries with
\* ranks 1, 2, ...; each entry is a distinct input candidate with
\* final_score = 0.7*model_score + 0.3*rule_score of that candidate; the
\* final scores do not increase along the result and no omitted candidate
\* scores strictly higher than a returned one.
C13_RankingShape ==
    tpc = "pick_best_query" =>
        LET n   == Len(call_args.candidates)
            k   == call_args.top_k
            res == call_result
        IN  /\ Len(res) = IF k < n THEN k ELSE n
            /\ \A i \in 1..Len(res) : res[i].rank = i
            /\ \A i \in 1..(Len(res) - 1) : res[i].final_score >= res[i + 1].final_score
            /\ \E f \in [1..Len(res) -> 1..n] :
                  /\ \A i, j \in 1..Len(res) : i # j => f[i] # f[j]
                  /\ \A i \in 1..Len(res) :
                        /\ res[i].sql = call_args.candidates[f[i]]
                        /\ res[i].model_score = call_args.model_scores[f[i]]
                        /\ res[i].final_score = ExpectedFinal(f[i])
                  /\ \A m \in 1..n :
                        (\A i \in 1..Len(res) : f[i] # m)
                            => \A i \in 1..Len(res) : ExpectedFinal(m) <= res[i].final_score

\* two of three candidates were returned, the better one first
C13_Witness ==
    /\ tpc = "pick_best_query"
    /\ Len(call_args.candidates) = 3
    /\ call_args.top_k = 2
    /\ Len(call_result) = 2
    /\ call_result[1].final_score > call_result[2].final_score
    /\ \E m \in 1..3 : ExpectedFinal(m) < call_result[2].final_score

\* C14 (as stated): on a tie for the best final score, pick_best_query ranks
\* first the tied candidate that comes first in the input list.
C14_TiesKeepInputOrder ==
    (tpc = "pick_best_query" /\ call_args.top_k >= 1) =>
        LET n     == Len(call_args.candidates)
            best  == {i \in 1..n : \A j \in 1..n : ExpectedFinal(j) <= ExpectedFinal(i)}
            first == CHOOSE i \in best : \A j \in best : i <= j
        IN  call_result[1].sql = call_args.candidates[first]

\* C16: for numbers, check_plan_limits reports "exceeds" exactly when
\* total_cost > 1,000,000 or plan_rows > 200,000 (a plan exactly at a ceiling
\* is admitted), and a rejection carries the cost and the row count.
C16_StrictCeilings ==
    (tpc = "check_plan_limits" /\ call_args.total_cost.kind = "num"
                               /\ call_args.plan_rows.kind = "num") =>
        /\ call_result.flag = (call_args.total_cost.val > 1000000
                                \/ call_args.plan_rows.val > 200000)
        /\ call_result.flag =>
              /\ call_result.motivo = "Plano excede limites"
              /\ call_result.custo = call_args.total_cost
              /\ call_result.linhas = call_args.plan_rows

\* a plan exactly at both ceilings was admitted
C16_Witness ==
    /\ tpc = "check_plan_limits"
    /\ call_args.total_cost = Num(1000000)
    /\ call_args.plan_rows = Num(200000)
    /\ call_result.flag = FALSE


\* C24 (as stated): normalization is idempotent: normalizing the output of
\* normalize_query (of normalize_sql) again returns that output unchanged.
C24_NormalizeIdempotent ==
    /\ tpc = "normalize_query" => normalize_query(call_result) = call_result
    /\ tpc = "normalize_sql" => normalize_sql(call_result) = call_result

\* the text without its comments, runs of whitespace collapsed
Unformatted(q) == CollapseWhitespace(StripBlockComments(StripLineComments(q)))

\* C25 (as stated): validate_query_integrity answers (False, "Query vazia
\* detectada") when either text is empty, and answers (True, "") only when
\* the two texts are the same statement up to comments and whitespace: a
\* text that differs in a literal value or an identifier is reported modified.
C25_IntegrityDetectsChange ==
    tpc = "validate_query_integrity" =>
        LET stored    == call_args.sql
            execution == call_args.candidates[1]
        IN  /\ (stored = <<>> \/ execution = <<>>)
                  => call_result = [valid |-> FALSE, reason |-> "Query vazia detectada"]
            /\ call_result.valid => Unformatted(stored) = Unformatted(execution)
            /\ (stored # <<>> /\ execution # <<>> /\ Unformatted(stored) # Unformatted(execution))
                  => call_result = [valid |-> FALSE, reason |-> "Query foi modificada apos geracao"]

----------------------------------------------------------------------------
(* sql_operations.get_explain_plan: the dry-run transaction.               *)

\* the explicit rollback left out
rollback_missing(state) == state

\* transaction.rollback()
transaction_rollback(state) == "rolled_back"

\* leaving "with connection.begin() as transaction": a transaction that is
\* still active is committed on a normal exit and rolled back on an exception
ExitTransaction(state, exception) ==
    IF state = "active"
    THEN (IF exception THEN "rolled_back" ELSE "committed")
    ELSE state

\* the effects that reach the database when the transaction ends in state st
Committed(st, pending) == IF st = "committed" THEN pending ELSE 0

ErrorTexts == {"msg", ""}     \* str(exc): a message, or the empty string

Outcome(kind, total_cost, plan_rows) ==
    [kind |-> kind, total_cost |-> total_cost, plan_rows |-> plan_rows]
Failure(kind) == Outcome(kind, NoNumber, NoNumber)

----------------------------------------------------------------------------
(* cli.execute_last_query (the /execute route) and                         *)
(* sql_operations.execute_sql_query.                                       *)

\* what get_sql_from_text can hand to the session as generated_query: a
\* selected candidate that passed its safety check, a "-- ..." notice or the
\* reply to a greeting; <<>> when the session has no assistant message with a
\* generated query
StoredQueries ==
    {q \in SqlPool : is_query_safe(q)} \cup {qBlocked, qNoValid, qGreeting, <<>>}

InitExec ==
    /\ generated_query \in StoredQueries
    /\ epc = "start"
    /\ exec_sql = <<>>
    /\ call_trace = <<>>
    /\ explained = {}
    /\ executed = {}
    /\ tx_state = "none"
    /\ tx_pending = 0
    /\ db_committed = 0
    /\ plan = NoPlan
    /\ erro = "none"
    /\ explain_path = "none"
    /\ exec_outcome = NoOutcome
    /\ query_history = <<>>
    /\ TextIdle
    /\ RetryIdle
    /\ GenIdle
    /\ ChatIdle

Return(out) ==
    /\ exec_outcome' = out
    /\ epc' = "done"

\* /execute: no assistant message with a query, or "query and
\* is_query_safe(query)" is false: redirect without executing
RouteRedirects ==
    /\ epc = "start"
    /\ ~(generated_query # <<>> /\ is_query_safe(generated_query))
    /\ epc' = "redirected"
    /\ UNCHANGED <<generated_query, exec_sql, call_trace, explained, executed, tx_state,
                   tx_pending, db_committed, plan, erro, exec_outcome, query_history>>
    /\ UNCHANGED <<explain_path, textVars, retryVars, genVars, chatVars>>

\* /execute: the stored query passes the route's check and is handed to
\* execute_sql_query
RouteExecutes ==
    /\ epc = "start"
    /\ generated_query # <<>>
    /\ is_query_safe(generated_query)
    /\ exec_sql' = generated_query
    /\ epc' = "safety_gate"
    /\ UNCHANGED <<generated_query, call_trace, explained, executed, tx_state,
                   tx_pending, db_committed, plan, erro, exec_outcome, query_history>>
    /\ UNCHANGED <<explain_path, textVars, retryVars, genVars, chatVars>>

\* execute_sql_query called with any text (it is an importable function)
DirectCall ==
    /\ epc = "start"
    /\ \E sql \in SqlPool \cup {qBlocked, <<>>} : exec_sql' = sql
    /\ epc' = "safety_gate"
    /\ UNCHANGED <<generated_query, call_trace, explained, executed, tx_state,
                   tx_pending, db_committed, plan, erro, exec_outcome, query_history>>
    /\ UNCHANGED <<explain_path, textVars, retryVars, genVars, chatVars>>

\* if not is_query_safe(sql_query): return the blocked outcome
SafetyGate ==
    /\ epc = "safety_gate"
    /\ IF ~is_query_safe(exec_sql)
       THEN /\ call_trace' = Append(call_trace, "safe_fail")
            /\ Return(Failure("blocked_security"))
       ELSE /\ call_trace' = Append(call_trace, "safe_ok")
            /\ epc' = "engine"
            /\ UNCHANGED exec_outcome
    /\ UNCHANGED <<generated_query, exec_sql, explained, executed, tx_state,
                   tx_pending, db_committed, plan, erro, query_history>>
    /\ UNCHANGED <<explain_path, textVars, retryVars, genVars, chatVars>>

\* create_engine raises: caught by the outer except
EngineFails ==
    /\ epc = "engine"
    /\ Return(Failure("exec_error"))
    /\ UNCHANGED <<generated_query, exec_sql, call_trace, explained, executed, tx_state,
                   tx_pending, db_committed, plan, erro, query_history>>
    /\ UNCHANGED <<explain_path, textVars, retryVars, genVars, chatVars>>

\* get_explain_plan is invoked; engine.connect() raises and (None, str(exc))
\* is returned
ExplainConnectFails ==
    /\ epc = "engine"
    /\ explained' = explained \cup {exec_sql}
    /\ plan' = NoPlan
    /\ \E e \in ErrorTexts : erro' = e
    /\ explain_path' = "connect_failed"
    /\ epc' = "after_explain"
    /\ UNCHANGED <<generated_query, exec_sql, call_trace, executed, tx_state,
                   tx_pending, db_committed, exec_outcome, query_history>>
    /\ UNCHANGED <<textVars, retryVars, genVars, chatVars>>

\* get_explain_plan is invoked; the connection is opened and
\* connection.begin() starts the dry-run transaction
ExplainBegin ==
    /\ epc = "engine"
    /\ explained' = explained \cup {exec_sql}
    /\ tx_state' = "active"
    /\ tx_pending' = 0
    /\ epc' = "explain_execute"
    /\ UNCHANGED <<generated_query, exec_sql, call_trace, executed,
                   db_committed, plan, erro, exec_outcome, query_history>>
    /\ UNCHANGED <<explain_path, textVars, retryVars, genVars, chatVars>>

\* connection.execute(EXPLAIN ...) raises: the with block is left by the
\* exception and (None, str(exc)) is returned
ExplainExecuteRaises ==
    /\ epc = "explain_execute"
    /\ \E staged \in {0, 1} : tx_pending' = staged
    /\ tx_state' = ExitTransaction(tx_state, TRUE)
    /\ db_committed' = db_committed + Committed(tx_state', tx_pending')
    /\ plan' = NoPlan
    /\ \E e \in ErrorTexts : erro' = e
    /\ explain_path' = "explain_raised"
    /\ epc' = "after_explain"
    /\ UNCHANGED <<generated_query, exec_sql, call_trace, explained, executed,
                   exec_outcome, query_history>>
    /\ UNCHANGED <<textVars, retryVars, genVars, chatVars>>

\* connection.execute(EXPLAIN ...) returns; the statement may have staged
\* work inside the transaction
ExplainExecuteReturns ==
    /\ epc = "explain_execute"
    /\ \E staged \in {0, 1} : tx_pending' = staged
    /\ epc' = "explain_fetch"
    /\ UNCHANGED <<generated_query, exec_sql, call_trace, explained, executed, tx_state,
                   db_committed, plan, erro, exec_outcome, query_history>>
    /\ UNCHANGED <<explain_path, textVars, retryVars, genVars, chatVars>>

\* result.fetchone()[0] raises (no row): the with block is left by the
\* exception
ExplainFetchFails ==
    /\ epc = "explain_fetch"
    /\ tx_state' = ExitTransaction(tx_state, TRUE)
    /\ db_committed' = db_committed + Committed(tx_state', tx_pending)
    /\ plan' = NoPlan
    /\ \E e \in ErrorTexts : erro' = e
    /\ explain_path' = "fetch_failed"
    /\ epc' = "after_explain"
    /\ UNCHANGED <<generated_query, exec_sql, call_trace, explained, executed,
                   tx_pending, exec_outcome, query_history>>
    /\ UNCHANGED <<textVars, retryVars, genVars, chatVars>>

\* the plan row is fetched, transaction.rollback() is called, and either the
\* plan is taken from the row and returned (the with block is left normally)
\* or plan_json[0] raises on an empty list (left by the exception)
ExplainFetchReturns ==
    /\ epc = "explain_fetch"
    /\ \E extracted \in BOOLEAN :
          /\ tx_state' = ExitTransaction(transaction_rollback(tx_state), ~extracted)
          /\ IF extracted
             THEN /\ \E pl \in Plans : plan' = pl
                  /\ erro' = "none"
                  /\ explain_path' = "plan"
             ELSE /\ plan' = NoPlan
                  /\ \E e \in ErrorTexts : erro' = e
                  /\ explain_path' = "extract_failed"
    /\ db_committed' = db_committed + Committed(tx_state', tx_pending)
    /\ epc' = "after_explain"
    /\ UNCHANGED <<generated_query, exec_sql, call_trace, explained, executed,
                   tx_pending, exec_outcome, query_history>>
    /\ UNCHANGED <<textVars, retryVars, genVars, chatVars>>

\* "if erro" is true for a non-empty error text only
Truthy(e) == e # "none" /\ e # ""

\* the checks on the result of get_explain_plan and check_plan_limits
AdmissionGate ==
    /\ epc = "after_explain"
    /\ LET total_cost == GetOrZero(plan.total_cost)
           plan_rows  == GetOrZero(plan.plan_rows)
           verdict    == check_plan_limits(total_cost, plan_rows)
       IN  IF Truthy(erro)
           THEN /\ call_trace' = Append(call_trace, "plan_fail")
                /\ Return(Failure("syntax_error"))
           ELSE IF plan = NoPlan
           THEN /\ call_trace' = Append(call_trace, "plan_fail")
                /\ Return(Failure("no_plan"))
           ELSE IF verdict.flag
           THEN /\ call_trace' = call_trace \o <<"plan_ok", "limits_fail">>
                /\ Return(Failure("blocked_limits"))
           ELSE /\ call_trace' = call_trace \o <<"plan_ok", "limits_ok">>
                /\ epc' = "run"
                /\ UNCHANGED exec_outcome
    /\ UNCHANGED <<generated_query, exec_sql, explained, executed, tx_state,
                   tx_pending, db_committed, plan, erro, query_history>>
    /\ UNCHANGED <<explain_path, textVars, retryVars, genVars, chatVars>>

\* engine.connect() or pd.read_sql_query raises: caught by the outer except
RunQueryRaises ==
    /\ epc = "run"
    /\ \E submitted \in BOOLEAN :
          /\ executed' = IF submitted THEN executed \cup {exec_sql} ELSE executed
          /\ call_trace' = IF submitted THEN Append(call_trace, "run") ELSE call_trace
    /\ Return(Failure("exec_error"))
    /\ UNCHANGED <<generated_query, exec_sql, explained, tx_state,
                   tx_pending, db_committed, plan, erro, query_history>>
    /\ UNCHANGED <<explain_path, textVars, retryVars, genVars, chatVars>>

\* pd.read_sql_query returns the rows
RunQueryReturns ==
    /\ epc = "run"
    /\ executed' = executed \cup {exec_sql}
    /\ call_trace' = Append(call_trace, "run")
    /\ epc' = "log"
    /\ UNCHANGED <<generated_query, exec_sql, explained, tx_state,
                   tx_pending, db_committed, plan, erro, exec_outcome, query_history>>
    /\ UNCHANGED <<explain_path, textVars, retryVars, genVars, chatVars>>

\* a failed audit write escapes log_query_history and reaches the outer except
LogAndReturn_audit_fatal ==
    /\ epc = "log"
    /\ \E written \in BOOLEAN :
          IF written
          THEN /\ query_history' = Append(query_history,
                                          [query_text |-> exec_sql,
                                           plan_total_cost |-> GetOrZero(plan.total_cost),
                                           plan_rows |-> GetOrZero(plan.plan_rows)])
               /\ Return(Outcome("success", GetOrZero(plan.total_cost), GetOrZero(plan.plan_rows)))
          ELSE /\ query_history' = query_history
               /\ Return(Failure("exec_error"))
    /\ UNCHANGED <<generated_query, exec_sql, call_trace, explained, executed, tx_state,
                   tx_pending, db_committed, plan, erro>>
    /\ UNCHANGED <<explain_path, textVars, retryVars, genVars, chatVars>>

\* log_query_history writes the audit row, or fails and only logs the error;
\* the successful outcome is returned either way
LogAndReturn ==
    /\ epc = "log"
    /\ \E written \in BOOLEAN :
          query_history' =
              IF written
              THEN Append(query_history,
                          [query_text |-> exec_sql,
                           plan_total_cost |-> GetOrZero(plan.total_cost),
                           plan_rows |-> GetOrZero(plan.plan_rows)])
              ELSE query_history
    /\ Return(Outcome("success", GetOrZero(plan.total_cost), GetOrZero(plan.plan_rows)))
    /\ UNCHANGED <<generated_query, exec_sql, call_trace, explained, executed, tx_state,
                   tx_pending, db_committed, plan, erro>>
    /\ UNCHANGED <<explain_path, textVars, retryVars, genVars, chatVars>>

NextExec ==
    \/ RouteRedirects
    \/ RouteExecutes
    \/ DirectCall
    \/ SafetyGate
    \/ EngineFails
    \/ ExplainConnectFails
    \/ ExplainBegin
    \/ ExplainExecuteRaises
    \/ ExplainExecuteReturns
    \/ ExplainFetchFails
    \/ ExplainFetchReturns
    \/ AdmissionGate
    \/ RunQueryRaises
    \/ RunQueryReturns
    \/ LogAndReturn

SpecExec == InitExec /\ [][NextExec]_vars

----------------------------------------------------------------------------
(* Claims about the executor and the dry run.                              *)

\* the text has one of the ten blocklisted words as a whole word, any case
ContainsBlocklistedWord(q) == \E w \in BlocklistWords : SearchWholeWord(q, w, TRUE)

\* the plan node carries an estimated cost and row count (an absent key
\* reads as 0) and neither is above its ceiling
WithinLimits(pl) ==
    /\ pl.kind = "dict"
    /\ GetOrZero(pl.total_cost).kind = "num"
    /\ GetOrZero(pl.plan_rows).kind = "num"
    /\ GetOrZero(pl.total_cost).val <= COST_CEILING
    /\ GetOrZero(pl.plan_rows).val <= ROW_CEILING

\* C1: execute_sql_query runs the real query only after, in this order,
\* is_query_safe accepted the text, the dry run returned a plan without an
\* error, and the plan was found within the limits; when one of the gates
\* fails the query is not run and a failure outcome is returned.
C1_GatesBeforeRun ==
    /\ (executed # {} \/ \E i \in 1..Len(call_trace) : call_trace[i] = "run")
          => /\ Len(call_trace) >= 3
             /\ SubSeq(call_trace, 1, 3) = <<"safe_ok", "plan_ok", "limits_ok">>
             /\ executed \subseteq {exec_sql}
             /\ ~ContainsBlocklistedWord(exec_sql)
             /\ ~Truthy(erro)
             /\ WithinLimits(plan)
    /\ (\E i \in 1..Len(call_trace) :
           call_trace[i] \in {"safe_fail", "plan_fail", "limits_fail"})
          => /\ executed = {}
             /\ epc = "done"
             /\ exec_outcome.kind \in {"blocked_security", "syntax_error", "no_plan",
                                       "blocked_limits"}

\* a query went through the three gates, was run and the call returned success
C1_Witness ==
    /\ epc = "done"
    /\ exec_outcome.kind = "success"
    /\ call_trace = <<"safe_ok", "plan_ok", "limits_ok", "run">>
    /\ executed = {exec_sql}

\* C2: get_explain_plan is never invoked for a text with a blocklisted word
\* as a whole word: such a text is stopped by the /execute route or by the
\* safety gate of execute_sql_query.
C2_BlockedNeverExplained ==
    /\ \A q \in explained : ~ContainsBlocklistedWord(q)
    /\ ContainsBlocklistedWord(exec_sql)
          => /\ epc \in {"safety_gate", "done"}
             /\ epc = "done" => exec_outcome.kind = "blocked_security"

\* "DELETE FROM t" was handed to execute_sql_query and turned away at the
\* safety gate without a dry run
C2_Witness ==
    /\ exec_sql = qDelete
    /\ epc = "done"
    /\ exec_outcome.kind = "blocked_security"
    /\ explained = {}

\* C3: the dry run never commits: on every path of get_explain_plan the
\* transaction it opened ends rolled back, no commit is issued, and nothing
\* the EXPLAIN statement staged reaches the database.
C3_DryRunNeverCommits ==
    /\ tx_state # "committed"
    /\ db_committed = 0
    /\ explain_path \in {"plan", "explain_raised", "fetch_failed", "extract_failed"}
          => tx_state = "rolled_back"

\* a plan was obtained while the statement had staged work, and the
\* transaction ended rolled back
C3_Witness ==
    /\ explain_path = "plan"
    /\ plan.kind = "dict"
    /\ tx_pending = 1
    /\ tx_state = "rolled_back"
    /\ db_committed = 0

\* C5 (as stated): every stored query that the /execute route hands to the
\* executor and that is run for real is a text that
\* validate_query_safety_enhanced accepts.
C5_EnhancedGatesExecution ==
    \A q \in executed :
        (generated_query # <<>> /\ q = generated_query)
            => validate_query_safety_enhanced(q).safe

\* C21 (as stated): the audit row is attempted only after the real query ran
\* successfully, never for a blocked or failed query, and whether or not the
\* row can be written the call returns the successful outcome with the
\* estimates of the plan.
C21_AuditNeverFailsExecution ==
    [][/\ epc' = "log" => (exec_sql \in executed' /\ call_trace'[Len(call_trace')] = "run")
       /\ query_history' # query_history => epc = "log"
       /\ epc = "log" =>
             /\ epc' = "done"
             /\ exec_outcome' = [kind |-> "success",
                                 total_cost |-> GetOrZero(plan.total_cost),
                                 plan_rows |-> GetOrZero(plan.plan_rows)]
       /\ (epc' = "done" /\ exec_outcome'.kind # "success") => query_history' = <<>>]_vars

\* a query ran, the audit row could not be written, and the call returned
\* success
C21_Witness ==
    /\ epc = "done"
    /\ executed = {exec_sql}
    /\ query_history = <<>>
    /\ exec_outcome.kind = "success"


\* the text is not a query: a "-- ..." notice of get_sql_from_text or the
\* direct reply to a greeting or a vague question (which starts with a line
\* break)
NonExecutable(q) == q # <<>> /\ (LitAt(q, 1, <<"-","-">>) \/ q[1] = "\n")

\* C28 (as stated): when the stored generated_query is a notice or a direct
\* reply, the /execute route hands it neither to the EXPLAIN dry run nor to
\* the real execution.
C28_NoticesNeverSubmitted ==
    (epc # "idle" /\ NonExecutable(generated_query)) =>
        /\ generated_query \notin explained
        /\ generated_query \notin executed


\* C30 (as stated): the query is run only when the top-level node of the
\* dry-run plan supplied both Total Cost and Plan Rows, as numbers, and both
\* are within the ceilings; a plan from which an estimate is missing or not a
\* number is not admitted.
C30_AdmittedOnActualEstimates ==
    (epc # "idle" /\ executed # {}) =>
        /\ plan.kind = "dict"
        /\ plan.total_cost.kind = "num" /\ plan.total_cost.val <= 1000000
        /\ plan.plan_rows.kind = "num" /\ plan.plan_rows.val <= 200000

----------------------------------------------------------------------------
(* query_generation.get_sql_from_text.                                     *)

MaxPayloads == 2      \* payloads per provider response

\* explanation values: 0 is the empty string, i >= 1 the explanation of
\* payload i, and the fixed texts below
explGreeting == 0 - 1
explVague    == 0 - 2
explReranker == 0 - 3

\* the sql_query values a payload can carry (<<>>: empty or absent)
PayloadTexts == {qSelect, qStar, qDelete, qDrop, <<>>}

Undecodable == [kind |-> "undecodable", sql |-> <<>>, explanation |-> 0,
                ml_algorithm |-> 0, used_tables |-> [kind |-> "absent", val |-> <<>>]]

\* the payloads that can stand at position i of a response
PayloadsAt(i) ==
    {Undecodable} \cup
    {[kind |-> "decoded", sql |-> q, explanation |-> i, ml_algorithm |-> i, used_tables |-> ut] :
        q \in PayloadTexts, ut \in {[kind |-> "list", val |-> <<i>>], [kind |-> "absent", val |-> <<>>],
                                     [kind |-> "not_list", val |-> <<>>]}}

PayloadSeqs(lo, hi) ==
    UNION {{ps \in [1..n -> PayloadsAt(1) \cup PayloadsAt(2) \cup PayloadsAt(3)] :
                \A i \in 1..n : ps[i] \in PayloadsAt(i)} : n \in lo..hi}

\* the responses of the provider: candidates of the Gemini response, or a
\* text that is a JSON list, a JSON object, or not JSON
Responses ==
    {[shape |-> "candidates", payloads |-> ps] : ps \in PayloadSeqs(1, MaxPayloads)}
    \cup {[shape |-> "json_list", payloads |-> ps] : ps \in PayloadSeqs(0, MaxPayloads)}
    \cup {[shape |-> "json_object", payloads |-> ps] : ps \in PayloadSeqs(1, 1)}
    \cup {[shape |-> "not_json", payloads |-> <<>>]}

\* normalize_sql(raw_sql) if raw_sql else ""
NormalizedOrEmpty(raw_sql) == IF raw_sql = <<>> THEN <<>> ELSE normalize_sql(raw_sql)

\* used_tables = json_response.get("used_tables", []); if it is a list it
\* replaces used_tables_list
UpdateTables(ut, payload) ==
    IF payload.used_tables.kind = "list" THEN [bound |-> TRUE, val |-> payload.used_tables.val]
    ELSE IF payload.used_tables.kind = "absent" THEN [bound |-> TRUE, val |-> <<>>]
    ELSE ut

Decoded(ok, sqls, mls, expls, ut) ==
    [ok |-> ok, sql_candidates |-> sqls, ml_algorithms |-> mls, explanations |-> expls,
     used_tables_list |-> ut]

\* the loop over response.candidates: a payload that fails to decode is
\* skipped; every decoded payload is appended, its SQL empty or not
RECURSIVE DecodeCandidates(_, _, _)
DecodeCandidates(ps, i, acc) ==
    IF i > Len(ps) THEN acc
    ELSE IF ps[i].kind = "undecodable" THEN DecodeCandidates(ps, i + 1, acc)
    ELSE DecodeCandidates(ps, i + 1,
            Decoded(TRUE,
                    Append(acc.sql_candidates, NormalizedOrEmpty(ps[i].sql)),
                    Append(acc.ml_algorithms, ps[i].ml_algorithm),
                    Append(acc.explanations, ps[i].explanation),
                    UpdateTables(acc.used_tables_list, ps[i])))

\* the loop over the items of a JSON list: an item with empty SQL is skipped
\* whole; an item that is not an object raises
RECURSIVE DecodeList(_, _, _)
DecodeList(ps, i, acc) ==
    IF i > Len(ps) THEN acc
    ELSE IF ps[i].kind = "undecodable" THEN [acc EXCEPT !.ok = FALSE]
    ELSE IF NormalizedOrEmpty(ps[i].sql) = <<>> THEN DecodeList(ps, i + 1, acc)
    ELSE DecodeList(ps, i + 1,
            Decoded(TRUE,
                    Append(acc.sql_candidates, NormalizedOrEmpty(ps[i].sql)),
                    Append(acc.ml_algorithms, ps[i].ml_algorithm),
                    Append(acc.explanations, ps[i].explanation),
                    UpdateTables(acc.used_tables_list, ps[i])))

\* a single JSON object
DecodeObject(payload) ==
    IF payload.kind = "undecodable" THEN Decoded(FALSE, <<>>, <<>>, <<>>, Unbound)
    ELSE Decoded(TRUE,
                 IF NormalizedOrEmpty(payload.sql) = <<>> THEN <<>>
                 ELSE <<NormalizedOrEmpty(payload.sql)>>,
                 <<payload.ml_algorithm>>,
                 <<payload.explanation>>,
                 UpdateTables(Unbound, payload))

Decode(resp) ==
    IF resp.shape = "candidates"
    THEN DecodeCandidates(resp.payloads, 1, Decoded(TRUE, <<>>, <<>>, <<>>, [bound |-> TRUE, val |-> <<>>]))
    ELSE IF resp.shape = "json_list"
    THEN DecodeList(resp.payloads, 1, Decoded(TRUE, <<>>, <<>>, <<>>, Unbound))
    ELSE DecodeObject(resp.payloads[1])

\* the candidate list left as decoded, empty texts included
NonEmpty_unfiltered(qs) == qs

\* [q for q in sql_candidates if q]
RECURSIVE NonEmpty(_)
NonEmpty(qs) ==
    IF qs = <<>> THEN <<>>
    ELSE IF Head(qs) = <<>> THEN NonEmpty(Tail(qs))
    ELSE <<Head(qs)>> \o NonEmpty(Tail(qs))

\* list.index(x): the first position of x
IndexOf(qs, x) == Min({i \in 1..Len(qs) : qs[i] = x})

Returned(sql, explanation, used_tables, ml) ==
    [kind |-> "returned", arity |-> 4, sql |-> sql, explanation |-> explanation,
     used_tables |-> used_tables, ml_algorithm |-> ml]

\* a return statement that reads used_tables_list: UnboundLocalError when the
\* name was never assigned
ReturnWithTables(sql, explanation, ut, ml) ==
    IF ut.bound THEN Returned(sql, explanation, ut.val, ml)
    ELSE [kind |-> "raised", arity |-> 0, sql |-> <<>>, explanation |-> 0,
          used_tables |-> <<>>, ml_algorithm |-> 0]

InitGen ==
    /\ gpc = "start"
    /\ nl_kind \in {"greeting", "vague", "question"}
    /\ response = NoResponse
    /\ sql_candidates = <<>>
    /\ ml_algorithms = <<>>
    /\ explanations = <<>>
    /\ used_tables_list = Unbound
    /\ scored = <<>>
    /\ gen_result = NoResult
    /\ TextIdle
    /\ RetryIdle
    /\ ExecIdle
    /\ ChatIdle

GenReturn(res) ==
    /\ gen_result' = res
    /\ gpc' = "done"

\* a greeting or a vague question is answered directly
FirstLayer ==
    /\ gpc = "start"
    /\ nl_kind \in {"greeting", "vague"}
    /\ GenReturn(IF nl_kind = "greeting"
                 THEN Returned(qGreeting, explGreeting, <<>>, 0)
                 ELSE Returned(qVague, explVague, <<>>, 0))
    /\ UNCHANGED <<nl_kind, response, sql_candidates, ml_algorithms, explanations,
                   used_tables_list, scored>>
    /\ UNCHANGED <<textVars, retryVars, execVars, chatVars>>

\* the vector store raises (a 3-tuple is returned) or finds nothing
ContextUnavailable ==
    /\ gpc = "start"
    /\ nl_kind = "question"
    /\ \E failed \in BOOLEAN :
          GenReturn(IF failed
                    THEN [Returned(qVectorErr, 0, <<>>, 0) EXCEPT !.arity = 3]
                    ELSE Returned(qNoMetadata, 0, <<>>, 0))
    /\ UNCHANGED <<nl_kind, response, sql_candidates, ml_algorithms, explanations,
                   used_tables_list, scored>>
    /\ UNCHANGED <<textVars, retryVars, execVars, chatVars>>

\* the vector store returns documents and the prompt is built
ContextFound ==
    /\ gpc = "start"
    /\ nl_kind = "question"
    /\ gpc' = "generate"
    /\ UNCHANGED <<nl_kind, response, sql_candidates, ml_algorithms, explanations,
                   used_tables_list, scored, gen_result>>
    /\ UNCHANGED <<textVars, retryVars, execVars, chatVars>>

\* safe_send_message raises: caught, the generation error is returned
ProviderUnavailable ==
    /\ gpc = "generate"
    /\ GenReturn(Returned(qGenErr, 0, <<>>, 0))
    /\ UNCHANGED <<nl_kind, response, sql_candidates, ml_algorithms, explanations,
                   used_tables_list, scored>>
    /\ UNCHANGED <<textVars, retryVars, execVars, chatVars>>

\* safe_send_message returns a response
ProviderResponds ==
    /\ gpc = "generate"
    /\ \E resp \in Responses : response' = resp
    /\ gpc' = "decode"
    /\ UNCHANGED <<nl_kind, sql_candidates, ml_algorithms, explanations,
                   used_tables_list, scored, gen_result>>
    /\ UNCHANGED <<textVars, retryVars, execVars, chatVars>>

\* the response is decoded into the candidate lists; without candidates the
\* request ends, otherwise the empty candidates are filtered out
DecodeResponse ==
    /\ gpc = "decode"
    /\ LET d == Decode(response)
       IN  IF response.shape = "not_json"
           THEN /\ GenReturn(Returned(qNotJson, 0, <<>>, 0))
                /\ UNCHANGED <<sql_candidates, ml_algorithms, explanations, used_tables_list>>
           ELSE IF ~d.ok
           THEN /\ GenReturn(Returned(qGenErr, 0, <<>>, 0))
                /\ UNCHANGED <<sql_candidates, ml_algorithms, explanations, used_tables_list>>
           ELSE /\ ml_algorithms' = d.ml_algorithms
                /\ explanations' = d.explanations
                /\ used_tables_list' = d.used_tables_list
                /\ IF d.sql_candidates = <<>>
                   THEN /\ sql_candidates' = d.sql_candidates
                        /\ GenReturn(Returned(qNoValid, 0, <<>>, 0))
                   ELSE /\ sql_candidates' = NonEmpty(d.sql_candidates)
                        /\ gpc' = "rerank"
                        /\ UNCHANGED gen_result
    /\ UNCHANGED <<nl_kind, response, scored>>
    /\ UNCHANGED <<textVars, retryVars, execVars, chatVars>>

\* pick_best_query raises (the relevance model fails, or there is nothing to
\* rank and ranked[0] raises): the reranking error is returned
RerankFails ==
    /\ gpc = "rerank"
    /\ scored' = Append(scored, sql_candidates)
    /\ GenReturn(ReturnWithTables(qRerankErr, 0, used_tables_list, 0))
    /\ UNCHANGED <<nl_kind, response, sql_candidates, ml_algorithms, explanations,
                   used_tables_list>>
    /\ UNCHANGED <<textVars, retryVars, execVars, chatVars>>

\* pick_best_query ranks the candidates; the first of the ranking is looked
\* up in the lists, checked with is_query_safe and returned
RerankAndSelect ==
    /\ gpc = "rerank"
    /\ sql_candidates # <<>>
    /\ scored' = Append(scored, sql_candidates)
    /\ \E model_scores \in [1..Len(sql_candidates) -> ModelScores] :
          LET ranked       == pick_best_query(sql_candidates, model_scores, 1)
              selected_sql == ranked[1].sql
              idx          == IndexOf(sql_candidates, selected_sql)
              explanation  == IF idx <= Len(explanations) THEN explanations[idx]
                              ELSE explReranker
          IN  IF selected_sql = <<>> \/ ~is_query_safe(selected_sql)
              THEN GenReturn(ReturnWithTables(qBlocked, explanation, used_tables_list, 0))
              ELSE GenReturn(ReturnWithTables(selected_sql, explanation, used_tables_list,
                                              ml_algorithms[idx]))
    /\ UNCHANGED <<nl_kind, response, sql_candidates, ml_algorithms, explanations,
                   used_tables_list>>
    /\ UNCHANGED <<textVars, retryVars, execVars, chatVars>>

NextGen ==
    \/ FirstLayer
    \/ ContextUnavailable
    \/ ContextFound
    \/ ProviderUnavailable
    \/ ProviderResponds
    \/ DecodeResponse
    \/ RerankFails
    \/ RerankAndSelect

SpecGen == InitGen /\ [][NextGen]_vars

----------------------------------------------------------------------------
(* Claims about get_sql_from_text.                                         *)

\* C4 (as stated): every candidate handed to pick_best_query has passed
\* is_query_safe: no candidate with a blocklisted word is scored.
C4_OnlySafeCandidatesScored ==
    \A i \in 1..Len(scored) : \A j \in 1..Len(scored[i]) : is_query_safe(scored[i][j])

\* C15 (as stated): when the relevance model fails while ranking,
\* get_sql_from_text returns the reranking failure: the request ends with
\* that notice, not with a candidate and not with another result.
C15_RerankFailureReturned ==
    [][RerankFails => (gen_result'.kind = "returned" /\ gen_result'.sql = qRerankErr)]_vars

\* payload i of the response decoded to a candidate with SQL text
HasSqlText(i) ==
    response.payloads[i].kind = "decoded" /\ response.payloads[i].sql # <<>>

\* C17 (as stated): a payload that fails to decode is dropped and the others
\* are still processed: when at least one payload of the response decodes to
\* a candidate with non-empty SQL the request proceeds to ranking, and the
\* no-viable-candidates outcome is returned only when no payload does.
C17_PartialDecodeTolerated ==
    (gpc \in {"rerank", "done"} /\ response.shape \in {"candidates", "json_list", "json_object"}) =>
        /\ (\E i \in 1..Len(response.payloads) : HasSqlText(i))
              => (gpc = "rerank" \/ scored # <<>>)
        /\ (gpc = "done" /\ gen_result.sql = qNoValid)
              => ~ \E i \in 1..Len(response.payloads) : HasSqlText(i)

\* C18 (as stated): candidates with empty SQL text are filtered out: no list
\* handed to pick_best_query holds an empty SQL string, and the SQL returned
\* by get_sql_from_text is never the empty string.
C18_EmptySqlFiltered ==
    /\ \A i \in 1..Len(scored) : \A j \in 1..Len(scored[i]) : scored[i][j] # <<>>
    /\ (gpc = "done" /\ gen_result.kind = "returned") => gen_result.sql # <<>>

\* a request whose response carried a payload without SQL text next to one
\* with SQL text was ranked and returned the candidate
C18_Witness ==
    /\ gpc = "done"
    /\ response.shape = "candidates"
    /\ \E i \in 1..Len(response.payloads) :
          response.payloads[i].kind = "decoded" /\ response.payloads[i].sql = <<>>
    /\ scored # <<>>
    /\ gen_result.sql = qSelect

\* payload i was parsed and taken into account (an item of a JSON list
\* without SQL text is skipped whole)
Parsed(i) ==
    /\ response.payloads[i].kind = "decoded"
    /\ response.shape = "json_list" => response.payloads[i].sql # <<>>

\* payload i was parsed and supplies a used_tables list
Supplies(i) == Parsed(i) /\ response.payloads[i].used_tables.kind = "list"

\* the used_tables of the last payload that supplies one, else the empty list
LastSupplied ==
    LET S == {i \in 1..Len(response.payloads) : Supplies(i)}
    IN  IF S = {} THEN <<>>
        ELSE response.payloads[CHOOSE i \in S : \A j \in S : j <= i].used_tables.val

\* C19 (as stated): the used_tables returned after ranking is the used_tables
\* of the last parsed payload that supplies the field; a later payload that
\* does not supply it leaves the value of the previous supplying payload.
C19_LastSuppliedTables ==
    (gpc = "done" /\ scored # <<>> /\ gen_result.kind = "returned") =>
        gen_result.used_tables = LastSupplied

\* C20 (as stated): a rejection is terminal. A request ranks its candidates at
\* most once; when the selection is made among candidates that all fail the
\* safety check the request ends there with the security rejection, and a
\* finished request takes no further step (no other candidate is tried).
C20_RejectionsTerminal ==
    [][/\ Len(scored') <= 1
       /\ gpc = "done" => (gpc' = "done" /\ gen_result' = gen_result /\ scored' = scored)
       /\ (RerankAndSelect /\ \A j \in 1..Len(sql_candidates) :
                                  ContainsBlocklistedWord(sql_candidates[j]))
             => (gpc' = "done" /\ gen_result'.kind = "returned" /\ gen_result'.sql = qBlocked)]_vars

\* C23 (as stated): get_sql_from_text never raises and returns a 4-tuple
\* (sql, explanation, used_tables, ml_algorithm) on every path.
C23_AlwaysFourTuple ==
    gpc = "done" => (gen_result.kind = "returned" /\ gen_result.arity = 4)

\* payload i of the response is a decoded payload whose SQL is the one returned
CarriesReturnedSql(i) ==
    /\ i \in 1..Len(response.payloads)
    /\ response.payloads[i].kind = "decoded"
    /\ response.payloads[i].sql # <<>>
    /\ normalize_sql(response.payloads[i].sql) = gen_result.sql

\* C27 (as stated): when a candidate is returned, the explanation and the
\* ml_algorithm returned with it are those of a payload that carries the
\* selected SQL, also when payloads with empty SQL were filtered out before
\* ranking.
C27_ExplanationOfSelected ==
    (gpc = "done" /\ scored # <<>> /\ gen_result.kind = "returned"
        /\ gen_result.sql \notin {qBlocked, qRerankErr}) =>
            /\ CarriesReturnedSql(gen_result.explanation)
            /\ CarriesReturnedSql(gen_result.ml_algorithm)

----------------------------------------------------------------------------
(* Database/services.py: chat_service. Every method runs in its own        *)
(* transaction (one commit), so the methods of concurrent requests         *)
(* interleave as whole steps.                                              *)

MaxMessages == 3        \* rows of chat_messages

Sessions == {"s1", "s2"}

ChatReturn(op, session_id, result) == [op |-> op, session |-> session_id, result |-> result]

InitChat ==
    /\ chat_sessions = [s \in Sessions |-> "absent"]
    /\ chat_messages = <<>>
    /\ chat_return = ChatReturn("none", "none", FALSE)
    /\ TextIdle
    /\ RetryIdle
    /\ ExecIdle
    /\ GenIdle

\* create_session: a new row of chat_sessions, deleted = False
create_session ==
    /\ \E s \in Sessions :
          /\ chat_sessions[s] = "absent"
          /\ chat_sessions' = [chat_sessions EXCEPT ![s] = "active"]
          /\ chat_return' = ChatReturn("create_session", s, s)
    /\ UNCHANGED chat_messages
    /\ UNCHANGED <<textVars, retryVars, execVars, genVars>>

\* save_user_message: a new row of chat_messages for the session (the row of
\* the session must exist; whether it is deleted is not looked at), with
\* deleted = False by default
save_user_message ==
    /\ Len(chat_messages) < MaxMessages
    /\ \E s \in Sessions :
          /\ chat_sessions[s] # "absent"
          /\ chat_messages' = Append(chat_messages,
                                      [session_id |-> s, role |-> "user", deleted |-> FALSE])
          /\ chat_return' = ChatReturn("save_user_message", s, Len(chat_messages) + 1)
    /\ UNCHANGED chat_sessions
    /\ UNCHANGED <<textVars, retryVars, execVars, genVars>>

\* save_assistant_message: the same with role "assistant"
save_assistant_message ==
    /\ Len(chat_messages) < MaxMessages
    /\ \E s \in Sessions :
          /\ chat_sessions[s] # "absent"
          /\ chat_messages' = Append(chat_messages,
                                      [session_id |-> s, role |-> "assistant", deleted |-> FALSE])
          /\ chat_return' = ChatReturn("save_assistant_message", s, Len(chat_messages) + 1)
    /\ UNCHANGED chat_sessions
    /\ UNCHANGED <<textVars, retryVars, execVars, genVars>>

\* the rows of chat_messages of the session with deleted = False, oldest first
VisibleMessages(s) ==
    SelectSeq(AsList([i \in 1..Len(chat_messages) |-> i]),
              LAMBDA i : chat_messages[i].session_id = s /\ ~chat_messages[i].deleted)

\* get_session_history: filters on the session id and on deleted = False of
\* the messages
get_session_history ==
    /\ \E s \in Sessions : chat_return' = ChatReturn("get_session_history", s, VisibleMessages(s))
    /\ chat_return' # chat_return
    /\ UNCHANGED <<chat_sessions, chat_messages>>
    /\ UNCHANGED <<textVars, retryVars, execVars, genVars>>

\* get_sessions_list: the sessions with deleted = False
get_sessions_list ==
    /\ chat_return' = ChatReturn("get_sessions_list", "none",
                                 {s \in Sessions : chat_sessions[s] = "active"})
    /\ chat_return' # chat_return
    /\ UNCHANGED <<chat_sessions, chat_messages>>
    /\ UNCHANGED <<textVars, retryVars, execVars, genVars>>

\* every message of the session gets the given deleted flag
MarkMessages(s, flag) ==
    AsList([i \in 1..Len(chat_messages) |->
        IF chat_messages[i].session_id = s
        THEN [chat_messages[i] EXCEPT !.deleted = flag]
        ELSE chat_messages[i]])

\* delete_session: a session that is not deleted is marked deleted with all
\* its messages and True is returned; otherwise False
delete_session ==
    /\ \E s \in Sessions :
          IF chat_sessions[s] = "active"
          THEN /\ chat_sessions' = [chat_sessions EXCEPT ![s] = "deleted"]
               /\ chat_messages' = MarkMessages(s, TRUE)
               /\ chat_return' = ChatReturn("delete_session", s, TRUE)
          ELSE /\ chat_return' = ChatReturn("delete_session", s, FALSE)
               /\ chat_return' # chat_return
               /\ UNCHANGED <<chat_sessions, chat_messages>>
    /\ UNCHANGED <<textVars, retryVars, execVars, genVars>>

\* restore_session: a deleted session is restored with all its messages and
\* True is returned; otherwise False
restore_session ==
    /\ \E s \in Sessions :
          IF chat_sessions[s] = "deleted"
          THEN /\ chat_sessions' = [chat_sessions EXCEPT ![s] = "active"]
               /\ chat_messages' = MarkMessages(s, FALSE)
               /\ chat_return' = ChatReturn("restore_session", s, TRUE)
          ELSE /\ chat_return' = ChatReturn("restore_session", s, FALSE)
               /\ chat_return' # chat_return
               /\ UNCHANGED <<chat_sessions, chat_messages>>
    /\ UNCHANGED <<textVars, retryVars, execVars, genVars>>

NextChat ==
    \/ create_session
    \/ save_user_message
    \/ save_assistant_message
    \/ get_session_history
    \/ get_sessions_list
    \/ delete_session
    \/ restore_session

SpecChat == InitChat /\ [][NextChat]_vars

----------------------------------------------------------------------------
(* Claims about chat_service.                                              *)

\* C26 (as stated): from the moment delete_session(s) returned True until
\* restore_session(s) returns True, get_sessions_list does not contain s and
\* get_session_history(s) returns no message, whatever was saved in between;
\* after restore_session(s) every message of s is visible again.
C26_SoftDeleteHides ==
    /\ \A s \in Sessions :
          chat_sessions[s] = "deleted" =>
              /\ chat_return.op = "get_sessions_list" => s \notin chat_return.result
              /\ (chat_return.op = "get_session_history" /\ chat_return.session = s)
                    => chat_return.result = <<>>
    /\ (chat_return.op = "restore_session" /\ chat_return.result = TRUE)
          => \A i \in 1..Len(chat_messages) :
                chat_messages[i].session_id = chat_return.session => ~chat_messages[i].deleted

====
